---- MODULE Spec2Model ----
(***************************************************************************)
(* State-machine model of the authoritative tick server and its client    *)
(* (engine_server/src/server.rs, engine_client/src/client.rs,             *)
(* engine_shared/src/{net,ecs,bsp}.rs).                                   *)
(*                                                                         *)
(* Floats are fixed-point: every coordinate is an integer number of       *)
(* tenths of a unit, so 10.0 is 100 and the movement step 0.1 is 1.       *)
(* Option<T> is a sequence of length 0 (None) or 1 (Some).                *)
(***************************************************************************)
EXTENDS Integers, Sequences, FiniteSets, TLC

(* ------------------------------ bounds -------------------------------- *)
\* reliable connections the listener hands to the server
MaxConns == 2
\* cap of the server tick counter
MaxTick == 2
\* cap of World.next_id
MaxEntities == 4
\* PlayerCommands ingested for one client since its last ClientReady
MaxCmds == 1
MaxMsgs == 2
MaxLines == 2
MaxClientTick == 2
MaxThreads == 3
MaxAllocs == 5
MaxCap == 3
MaxPushes == 6
MaxSnaps == 3
MaxFrames == 3
MaxTimeouts == 1
MaxTyped == 34
MaxSpawns == 3
MaxInserts == 3
MaxMapEntities == 2
MaxTextLines == 4
MaxQueued == 3
MaxSteps == 2
MaxDelivered == 3
MaxCmdTick == 2

(* ------------------------- program constants -------------------------- *)
PROTOCOL_VERSION == 1
\* initial value of the process-wide NEXT_CLIENT_ID counter
FIRST_CLIENT_ID == 1
\* `wish * 0.1`: 0.1 unit is one tenth
STEP_TENTHS == 1
\* iterations of the two loops of client_server_full_roundtrip
TEST_TICKS == 10
\* SnapshotBuffer::new(32)
SNAP_CAPACITY == 32

(* ------------------------------ values -------------------------------- *)
None == <<>>
Some(v) == <<v>>
IsSome(o) == o # <<>>
Unwrap(o) == o[1]

EmptyMap == [k \in {} |-> 0]

Vec3(x, y, z) == [x |-> x, y |-> y, z |-> z]
ZERO == Vec3(0, 0, 0)

\* wish vectors (whole units) and tick numbers the peers put into PlayerCommands
Wishes == {Vec3(1, 0, 0)}
CmdTicks == {1}
\* remote ip of the reliable connections
PeerIp == "127.0.0.1"
SocketAddr_new(ip, port) == <<ip, port>>
\* source endpoints of PlayerCommand datagrams: a port other than the one UdpHello named
Addrs == {SocketAddr_new(PeerIp, 50001)}

\* BspEntity with its classname and the result of origin()
BspEntity(cn, org) == [classname |-> cn, origin |-> org]

\* the .bsp files present in maps_dir, by file stem: their entity lumps.
\* Origins are the parsed "origin" properties, in tenths.
MapFiles ==
    [ de_one |-> << BspEntity("worldspawn", None),
                    BspEntity("info_player_start", Some(Vec3(100, 0, 0))),
                    BspEntity("info_target", Some(Vec3(0, 50, 0))) >>,
      de_two |-> << BspEntity("worldspawn", None),
                    BspEntity("light", None) >> ]

\* map names typed at the console; "missing" has no file
MapNames == {"de_one", "de_two", "missing"}

BspMap_load(name) ==
    IF name \in DOMAIN MapFiles
    THEN Some([name |-> name, entities |-> MapFiles[name]])
    ELSE None

StartsWithInfoPlayer(cn) == cn \in {"info_player_start", "info_player_deathmatch"}

RECURSIVE FilterOrigins(_)
FilterOrigins(ents) ==
    IF ents = <<>> THEN <<>>
    ELSE LET e == Head(ents)
             keep == (StartsWithInfoPlayer(e.classname) \/ e.classname = "info_target")
                     /\ IsSome(e.origin)
         IN (IF keep THEN <<Unwrap(e.origin)>> ELSE <<>>) \o FilterOrigins(Tail(ents))

spawn_points(bsp) == FilterOrigins(bsp.entities)

(* ------------------------------- World -------------------------------- *)
World_default == [next_id |-> 0, position |-> EmptyMap]

\* spawn as it would be if it handed out next_id without advancing it
World_spawn_same_id(w) == w

\* the id returned is the next_id of the world before the call
World_spawn(w) == [w EXCEPT !.next_id = w.next_id + 1]

World_get(w, id) == IF id \in DOMAIN w.position THEN Some(w.position[id]) ELSE None

World_insert(w, id, pos) ==
    [w EXCEPT !.position = [e \in (DOMAIN w.position) \cup {id} |->
                               IF e = id THEN pos ELSE w.position[e]]]

(* ------------------------------ messages ------------------------------ *)
Hello(p) == [type |-> "Hello", protocol |-> p]
UdpHello(port) == [type |-> "UdpHello", client_udp_port |-> port]
Welcome(id) == [type |-> "Welcome", client_id |-> id]
MapInfoMsg(name) == [type |-> "MapInfo", name |-> name, crc |-> 0, size |-> 0]
ClientReady(id) == [type |-> "ClientReady", client_id |-> id]
PlayerCommand(id, t, w) == [type |-> "PlayerCommand", client_id |-> id, tick |-> t, wish |-> w]
ClientCommand == [type |-> "ClientCommand"]
SnapshotMsg(t, ents) == [type |-> "Snapshot", tick |-> t, entities |-> ents]
\* bytes that serde_json cannot decode into a NetMsg
Malformed == [type |-> "Malformed"]

(* --------------------------- server state ----------------------------- *)
VARIABLES
    world,          \* GameServer.world
    clients,        \* GameServer.clients: ClientId -> ClientState
    tick,           \* GameServer.tick
    state,          \* GameServer.state
    current_map,    \* GameServer.current_map
    NEXT_CLIENT_ID, \* net.rs static counter
    pc,             \* position of the server task: "idle", or inside step:
                    \* "console" (process_console_commands), "recv" (recv_commands)
    nconns,         \* connections accepted so far
    hs,             \* observation: the latest handshake
    sent,           \* observation: datagrams handed to the socket by the latest step
    broadcast,      \* observation: the latest step called send_snapshots
    lastSnapTick,   \* observation: tick of the latest snapshot emitted, -1 if none
    readied,        \* observation: registered ids named by a processed ClientReady
    avatars,        \* observation: clients whose avatar was spawned into this world
    cmds,           \* observation: wishes ingested per client since its ClientReady
    rt,             \* the integration test's two tasks and sockets
    faults,         \* transport failures seen so far and the fate of the main loop
    conn,           \* the connection try_accept is handshaking on, frame by frame
    gc,             \* the GameClient of the client program
    lib             \* a library type exercised on its own: its value and inputs

vars == << world, clients, tick, state, current_map, NEXT_CLIENT_ID, pc, nconns, hs, sent, broadcast, lastSnapTick, readied, avatars, cmds, rt, faults, conn, gc, lib >>

\* the variables of the server proper, and those of the harnesses around it
server == << world, clients, tick, state, current_map, NEXT_CLIENT_ID, pc, nconns, hs, sent,
            broadcast, lastSnapTick, readied, avatars, cmds >>
harness == << rt, faults, conn, gc, lib >>
\* everything but lib: the programs, at rest while a library type is exercised
programs == << server, rt, faults, conn, gc >>

\* the server fields the handlers read and write, with the observations they feed
Self == [world |-> world, clients |-> clients, tick |-> tick, state |-> state,
         current_map |-> current_map, readied |-> readied, avatars |-> avatars,
         cmds |-> cmds]

(* ------------------------- GameServer handlers ------------------------ *)
RECURSIVE spawn_bsp_entities(_, _)
spawn_bsp_entities(S, ents) ==
    IF ents = <<>> THEN S
    ELSE LET ent == Head(ents)
             id == S.world.next_id
             w1 == World_spawn(S.world)
             w2 == IF IsSome(ent.origin) THEN World_insert(w1, id, Unwrap(ent.origin)) ELSE w1
         IN IF ent.classname = "worldspawn"
            THEN spawn_bsp_entities(S, Tail(ents))
            ELSE spawn_bsp_entities([S EXCEPT !.world = w2], Tail(ents))

\* Result of load_map: ok = FALSE is the early return of `?` on BspMap::load
load_map(S, map_name) ==
    LET loading == [S EXCEPT !.state = "LoadingMap"]
        bsp == BspMap_load(map_name)
    IN IF ~IsSome(bsp)
       THEN [ok |-> FALSE, self |-> loading]
       ELSE LET cleared == [loading EXCEPT !.world = World_default, !.avatars = {}]
                seeded == spawn_bsp_entities(cleared, Unwrap(bsp).entities)
            IN [ok |-> TRUE,
                self |-> [seeded EXCEPT !.current_map = bsp, !.tick = 0,
                                        !.state = "Running"]]

\* map_info as it would be if the loaded map were never announced
map_info_absent(S) == None

map_info(S) ==
    IF IsSome(S.current_map) THEN Some(MapInfoMsg(Unwrap(S.current_map).name)) ELSE None

\* client_ready as it would be if it set the flag and kept no entity id
client_ready_flag_only(S, client_id) ==
    LET ent == S.world.next_id
        w == World_insert(World_spawn(S.world), ent, ZERO)
        known == client_id \in DOMAIN S.clients
    IN [S EXCEPT !.world = w,
                 !.clients = IF known
                             THEN [S.clients EXCEPT ![client_id].ready = TRUE]
                             ELSE S.clients,
                 !.readied = S.readied \cup (IF known THEN {client_id} ELSE {})]

client_ready(S, client_id) ==
    LET points == IF IsSome(S.current_map) THEN spawn_points(Unwrap(S.current_map)) ELSE <<>>
        spawn_pos == IF Len(points) > 0 THEN points[1] ELSE ZERO
        ent == S.world.next_id
        w == World_insert(World_spawn(S.world), ent, spawn_pos)
        known == client_id \in DOMAIN S.clients
    IN [S EXCEPT !.world = w,
                 !.clients = IF known
                             THEN [S.clients EXCEPT ![client_id].ready = TRUE,
                                                    ![client_id].player_entity = Some(ent)]
                             ELSE S.clients,
                 !.readied = S.readied \cup (IF known THEN {client_id} ELSE {}),
                 !.avatars = S.avatars \cup (IF known THEN {client_id} ELSE {}),
                 !.cmds = IF known THEN [S.cmds EXCEPT ![client_id] = <<>>] ELSE S.cmds]

Nudge(pos, wish) ==
    Vec3(pos.x + wish.x * STEP_TENTHS, pos.y + wish.y * STEP_TENTHS,
         pos.z + wish.z * STEP_TENTHS)

\* on_command as it would be if a record without a player entity stood for entity 0
on_command_default_entity(S, from, cmd) ==
    IF cmd.client_id \notin DOMAIN S.clients THEN S
    ELSE LET c == S.clients[cmd.client_id]
             eid == IF IsSome(c.player_entity) THEN Unwrap(c.player_entity) ELSE 0
             w == IF eid \in DOMAIN S.world.position
                  THEN [S.world EXCEPT !.position[eid] = Nudge(@, cmd.wish)]
                  ELSE S.world
         IN [S EXCEPT !.clients[cmd.client_id].udp_peer = from,
                      !.clients[cmd.client_id].last_cmd_tick = cmd.tick,
                      !.world = w,
                      !.cmds[cmd.client_id] = Append(@, cmd.wish)]

on_command(S, from, cmd) ==
    IF cmd.client_id \notin DOMAIN S.clients THEN S
    ELSE LET c == S.clients[cmd.client_id]
             has_pos == IsSome(c.player_entity)
                        /\ Unwrap(c.player_entity) \in DOMAIN S.world.position
             w == IF has_pos
                  THEN [S.world EXCEPT !.position[Unwrap(c.player_entity)] =
                                           Nudge(@, cmd.wish)]
                  ELSE S.world
         IN [S EXCEPT !.clients[cmd.client_id].udp_peer = from,
                      !.clients[cmd.client_id].last_cmd_tick = cmd.tick,
                      !.world = w,
                      !.cmds[cmd.client_id] = Append(@, cmd.wish)]

handle_udp_message(S, from, msg) ==
    CASE msg.type = "PlayerCommand" -> on_command(S, from, msg)
      [] msg.type = "ClientReady" -> client_ready(S, msg.client_id)
      [] OTHER -> S

\* serde_json::from_slice on a datagram's bytes
decode_datagram(bytes) == IF bytes.type = "Malformed" THEN None ELSE Some(bytes)

\* one iteration of the recv_commands loop that got a datagram
recv_one(S, dg) ==
    LET msg == decode_datagram(dg.bytes)
    IN IF IsSome(msg) THEN handle_udp_message(S, dg.from, Unwrap(msg)) ELSE S

\* send_snapshots as it would be if each payload were built per recipient,
\* leaving out the recipient's own avatar
send_snapshots_per_client(S) ==
    LET entities(c) == {[id |-> e, position |-> S.world.position[e]] :
                           e \in {k \in DOMAIN S.world.position :
                                     S.clients[c].player_entity # Some(k)}}
    IN {[client |-> c, to |-> S.clients[c].udp_peer,
         payload |-> SnapshotMsg(S.tick, entities(c))] :
           c \in {k \in DOMAIN S.clients : S.clients[k].ready}}

\* the datagrams send_snapshots hands to the socket, each with the record it is for
send_snapshots(S) ==
    LET entities == {[id |-> e, position |-> S.world.position[e]] :
                        e \in DOMAIN S.world.position}
        snap == SnapshotMsg(S.tick, entities)
    IN {[client |-> c, to |-> S.clients[c].udp_peer, payload |-> snap] :
           c \in {k \in DOMAIN S.clients : S.clients[k].ready}}

\* a console line: the first token and its argument
Line(cmd, arg) == [cmd |-> cmd, arg |-> arg]

exec_console(S, line) ==
    IF line.cmd = "map"
    THEN IF ~IsSome(line.arg)
         THEN [self |-> S, out |-> "Usage"]
         ELSE LET r == load_map(S, Unwrap(line.arg))
              IN [self |-> r.self, out |-> IF r.ok THEN "Loaded" ELSE "Failed"]
    ELSE [self |-> S, out |-> "Status"]

\* ClientState as it would be if a record were registered ready
ClientState_new_ready(udp_peer) ==
    [udp_peer |-> udp_peer, last_cmd_tick |-> 0, ready |-> TRUE, player_entity |-> None]

ClientState_new(udp_peer) ==
    [udp_peer |-> udp_peer, last_cmd_tick |-> 0, ready |-> FALSE, player_entity |-> None]

\* a reliable read that fails (closed stream, short frame, undecodable payload)
RecvErr == [type |-> "RecvErr"]

\* Outcome of the handshake on a fresh connection: first and second are what the two
\* conn.recv() calls yield; fail names the conn.send() that errors, if any.
HandshakeErr(S, counter, out) ==
    [ok |-> FALSE, id |-> None, out |-> out, clients |-> S.clients, counter |-> counter]

\* the handshake as it would be without the protocol comparison
handle_new_connection_any_protocol(S, counter, peer_ip, first, second, fail) ==
    IF first.type = "Hello"
    THEN IF second.type # "UdpHello"
         THEN HandshakeErr(S, counter, <<>>)
         ELSE LET id == counter
                  minted == counter + 1
                  info == map_info(S)
                  udp_peer == SocketAddr_new(peer_ip, second.client_udp_port)
              IN IF fail = "Welcome"
                 THEN HandshakeErr(S, minted, <<>>)
                 ELSE IF IsSome(info) /\ fail = "MapInfo"
                 THEN HandshakeErr(S, minted, <<Welcome(id)>>)
                 ELSE [ok |-> TRUE, id |-> Some(id),
                       out |-> <<Welcome(id)>> \o info,
                       clients |-> (id :> ClientState_new(udp_peer)) @@ S.clients,
                       counter |-> minted]
    ELSE HandshakeErr(S, counter, <<>>)

\* the handshake as it would be if the id were minted before the second frame is read
handle_new_connection_mint_early(S, counter, peer_ip, first, second, fail) ==
    IF first.type = "Hello" /\ first.protocol = PROTOCOL_VERSION
    THEN LET id == counter
             minted == counter + 1
             info == map_info(S)
         IN IF second.type # "UdpHello"
            THEN HandshakeErr(S, minted, <<>>)
            ELSE LET udp_peer == SocketAddr_new(peer_ip, second.client_udp_port)
                 IN IF fail = "Welcome"
                    THEN HandshakeErr(S, minted, <<>>)
                    ELSE IF IsSome(info) /\ fail = "MapInfo"
                    THEN HandshakeErr(S, minted, <<Welcome(id)>>)
                    ELSE [ok |-> TRUE, id |-> Some(id),
                          out |-> <<Welcome(id)>> \o info,
                          clients |-> (id :> ClientState_new(udp_peer)) @@ S.clients,
                          counter |-> minted]
    ELSE HandshakeErr(S, counter, <<>>)

handle_new_connection(S, counter, peer_ip, first, second, fail) ==
    IF first.type = "Hello" /\ first.protocol = PROTOCOL_VERSION
    THEN IF second.type # "UdpHello"
         THEN HandshakeErr(S, counter, <<>>)
         ELSE LET id == counter
                  minted == counter + 1
                  info == map_info(S)
                  udp_peer == SocketAddr_new(peer_ip, second.client_udp_port)
              IN IF fail = "Welcome"
                 THEN HandshakeErr(S, minted, <<>>)
                 ELSE IF IsSome(info) /\ fail = "MapInfo"
                 THEN HandshakeErr(S, minted, <<Welcome(id)>>)
                 ELSE [ok |-> TRUE, id |-> Some(id),
                       out |-> <<Welcome(id)>> \o info,
                       clients |-> (id :> ClientState_new(udp_peer)) @@ S.clients,
                       counter |-> minted]
    ELSE HandshakeErr(S, counter, <<>>)

accept_one(S, counter, peer_ip, first, second, fail) ==
    IF first.type = "Hello" /\ first.protocol = PROTOCOL_VERSION
    THEN IF second.type # "UdpHello"
         THEN HandshakeErr(S, counter, <<>>)
         ELSE LET id == counter
                  minted == counter + 1
                  info == map_info(S)
                  udp_peer == SocketAddr_new(peer_ip, second.client_udp_port)
              IN IF fail = "Welcome"
                 THEN HandshakeErr(S, minted, <<>>)
                 ELSE IF IsSome(info) /\ fail = "MapInfo"
                 THEN HandshakeErr(S, minted, <<Welcome(id)>>)
                 ELSE [ok |-> TRUE, id |-> Some(id),
                       out |-> <<Welcome(id)>> \o info,
                       clients |-> (id :> ClientState_new(udp_peer)) @@ S.clients,
                       counter |-> minted]
    ELSE HandshakeErr(S, counter, <<>>)

(* ---------------------------- environment ----------------------------- *)
\* client ids peers put into datagrams; 0 is never minted
DatagramIds == 0..MaxConns

Datagram(from, bytes) == [from |-> from, bytes |-> bytes]

Datagrams(wishes) ==
    {Datagram(a, PlayerCommand(id, t, w)) :
        a \in Addrs, id \in DatagramIds, t \in CmdTicks, w \in wishes}
    \cup {Datagram(SocketAddr_new(PeerIp, 50000), ClientReady(id)) : id \in DatagramIds}
    \cup {Datagram(SocketAddr_new(PeerIp, 50000), m) : m \in {ClientCommand, Malformed}}

ConsoleLines ==
    {Line("map", Some(n)) : n \in MapNames} \cup {Line("map", None), Line("status", None)}

\* what a connecting peer does: the frames the two conn.recv() calls yield (the
\* second is on the stream whether or not the handshake gets to read it) and the
\* conn.send() that fails, if any
Peer(first, second, fail) == [first |-> first, second |-> second, fail |-> fail]
Peers ==
    {Peer(f, UdpHello(50000), "none") :
        f \in {Hello(PROTOCOL_VERSION + 1), UdpHello(50000), ClientReady(0), RecvErr}}
    \cup {Peer(Hello(PROTOCOL_VERSION), s, "none") : s \in {Hello(PROTOCOL_VERSION), RecvErr}}
    \cup {Peer(Hello(PROTOCOL_VERSION), UdpHello(50000), f) :
             f \in {"none", "Welcome", "MapInfo"}}

NoHandshake == [via |-> "none"]
NoRoundtrip == [on |-> FALSE]
NoFaults == [on |-> FALSE]
NoConn == [on |-> FALSE]
NoClient == [on |-> FALSE]
NoLib == [on |-> FALSE]

(* ------------------------------ actions ------------------------------- *)
\* GameServer::new starts Idle; bind_ephemeral starts Running without a map
InitServer(st) ==
    /\ world = World_default
    /\ clients = EmptyMap
    /\ tick = 0
    /\ state = st
    /\ current_map = None
    /\ NEXT_CLIENT_ID = FIRST_CLIENT_ID
    /\ pc = "idle"
    /\ nconns = 0
    /\ hs = NoHandshake
    /\ sent = {}
    /\ broadcast = FALSE
    /\ lastSnapTick = -1
    /\ readied = {}
    /\ avatars = {}
    /\ cmds = EmptyMap

Init ==
    /\ \E st \in {"Idle", "Running"} : InitServer(st)
    /\ rt = NoRoundtrip
    /\ faults = NoFaults
    /\ conn = NoConn
    /\ gc = NoClient
    /\ lib = NoLib

\* the server fields take the values of the record a handler returns
Store(S) ==
    /\ world' = S.world
    /\ clients' = S.clients
    /\ tick' = S.tick
    /\ state' = S.state
    /\ current_map' = S.current_map
    /\ readied' = S.readied
    /\ avatars' = S.avatars
    /\ cmds' = S.cmds

\* the handshake's effects, for try_accept and accept_one alike
Handshaken(via, peer, r) ==
    /\ clients' = r.clients
    /\ NEXT_CLIENT_ID' = r.counter
    /\ cmds' = [c \in DOMAIN r.clients |-> IF c \in DOMAIN cmds THEN cmds[c] ELSE <<>>]
    /\ nconns' = nconns + 1
    /\ hs' = [via |-> via, first |-> peer.first, second |-> peer.second,
              fail |-> peer.fail, ok |-> r.ok, id |-> r.id, out |-> r.out]
    /\ UNCHANGED << world, tick, state, current_map, pc, sent, broadcast,
                    lastSnapTick, readied, avatars >>

\* try_accept: the listener yields a connection within the timeout
TryAccept ==
    /\ pc = "idle"
    /\ nconns < MaxConns
    /\ \E peer \in Peers :
          Handshaken("try_accept", peer,
                     handle_new_connection(Self, NEXT_CLIENT_ID, PeerIp,
                                           peer.first, peer.second, peer.fail))
    /\ UNCHANGED harness

AcceptOne ==
    /\ pc = "idle"
    /\ nconns < MaxConns
    /\ \E peer \in Peers :
          Handshaken("accept_one", peer,
                     accept_one(Self, NEXT_CLIENT_ID, PeerIp,
                                peer.first, peer.second, peer.fail))
    /\ UNCHANGED harness

\* step is entered: process_console_commands collects the queued lines
StepBegin ==
    /\ pc = "idle"
    /\ pc' = "console"
    /\ hs' = NoHandshake
    /\ sent' = {}
    /\ broadcast' = FALSE
    /\ UNCHANGED << world, clients, tick, state, current_map, NEXT_CLIENT_ID, nconns,
                    lastSnapTick, readied, avatars, cmds >>

\* process_console_commands executes the next collected line
ExecLine(line) ==
    /\ pc = "console"
    /\ Store(exec_console(Self, line).self)
    /\ UNCHANGED << NEXT_CLIENT_ID, pc, nconns, hs, sent, broadcast, lastSnapTick >>

\* recv_commands: try_recv_from yields a datagram
RecvDatagram(dg) ==
    /\ pc \in {"console", "recv"}
    /\ Store(recv_one(Self, dg))
    /\ pc' = "recv"
    /\ UNCHANGED << NEXT_CLIENT_ID, nconns, hs, sent, broadcast, lastSnapTick >>

\* recv_commands sees WouldBlock; simulate; send_snapshots if Running; tick += 1
StepEnd ==
    /\ pc \in {"console", "recv"}
    /\ LET out == IF state = "Running" THEN send_snapshots(Self) ELSE {}
       IN /\ sent' = out
          /\ broadcast' = (state = "Running")
          /\ lastSnapTick' = IF out # {} THEN tick ELSE lastSnapTick
    /\ tick' = tick + 1
    /\ pc' = "idle"
    /\ UNCHANGED << world, clients, state, current_map, NEXT_CLIENT_ID, nconns,
                    hs, readied, avatars, cmds >>

\* the caps that keep the reachable states finite
Capped ==
    /\ world'.next_id <= MaxEntities
    /\ \A c \in DOMAIN cmds' : Len(cmds'[c]) <= MaxCmds

SrvStepBegin == tick < MaxTick /\ StepBegin /\ UNCHANGED harness

SrvExecLine == \E line \in ConsoleLines : ExecLine(line) /\ UNCHANGED harness

SrvRecvDatagram ==
    \E dg \in Datagrams(Wishes) : RecvDatagram(dg) /\ Capped /\ UNCHANGED harness

SrvStepEnd == StepEnd /\ UNCHANGED harness

Next ==
    \/ TryAccept
    \/ AcceptOne
    \/ SrvStepBegin
    \/ SrvExecLine
    \/ SrvRecvDatagram
    \/ SrvStepEnd

Spec == Init /\ [][Next]_vars

(* ------------------------------ claims -------------------------------- *)
\* a step has just run to its end
StepEnded == pc # "idle" /\ pc' = "idle"
\* a handshake has just been attempted
HandshakeTried == nconns' # nconns
\* the clients the latest step sent a snapshot to
Recipients(out) == {d.client : d \in out}

C2_SnapshotTicksIncrease ==
    [][(StepEnded /\ sent' # {} /\ lastSnapTick # -1) => lastSnapTick' > lastSnapTick]_vars

\* C3 - handshake happy path: Hello with the server's protocol, then UdpHello,
\* and no send failure: the server sends Welcome with a non-zero id first, then
\* MapInfo naming the loaded map if there is one, and nothing else.
C3_HandshakeHappyPath ==
    (/\ hs.via # "none"
     /\ hs.first = Hello(PROTOCOL_VERSION)
     /\ hs.second.type = "UdpHello"
     /\ hs.fail = "none")
    => /\ hs.ok
       /\ Len(hs.out) >= 1
       /\ hs.out[1].type = "Welcome"
       /\ hs.out[1].client_id # 0
       /\ hs.id = Some(hs.out[1].client_id)
       /\ IF IsSome(current_map)
          THEN /\ Len(hs.out) = 2
               /\ hs.out[2].type = "MapInfo"
               /\ hs.out[2].name = Unwrap(current_map).name
          ELSE Len(hs.out) = 1

\* a handshake succeeded on a server with a map loaded: Welcome, then MapInfo
C3_Witness ==
    /\ hs.via # "none"
    /\ hs.ok
    /\ IsSome(current_map)
    /\ Len(hs.out) = 2

\* C4 - version mismatch: a Hello with another protocol makes the handshake fail
\* with nothing sent, the id counter unchanged and no record registered.
C4_VersionMismatch ==
    [][(/\ HandshakeTried
        /\ hs'.first.type = "Hello"
        /\ hs'.first.protocol # PROTOCOL_VERSION)
       => /\ ~hs'.ok
          /\ hs'.id = None
          /\ hs'.out = <<>>
          /\ NEXT_CLIENT_ID' = NEXT_CLIENT_ID
          /\ clients' = clients]_vars

\* a handshake with the wrong protocol failed on a server that had minted an id before
C4_Witness ==
    /\ hs.via # "none"
    /\ hs.first = Hello(PROTOCOL_VERSION + 1)
    /\ ~hs.ok
    /\ NEXT_CLIENT_ID > FIRST_CLIENT_ID
    /\ DOMAIN clients # {}

\* C5 - out-of-order handshake: a first frame that is not Hello, or a frame after
\* a valid Hello that is not UdpHello, makes the handshake fail with nothing sent,
\* no id minted and the client table unchanged.
C5_OutOfOrderHandshake ==
    [][(/\ HandshakeTried
        /\ \/ hs'.first.type # "Hello"
           \/ hs'.first = Hello(PROTOCOL_VERSION) /\ hs'.second.type # "UdpHello")
       => /\ ~hs'.ok
          /\ hs'.id = None
          /\ hs'.out = <<>>
          /\ NEXT_CLIENT_ID' = NEXT_CLIENT_ID
          /\ clients' = clients]_vars

\* a handshake failed on its second frame, on a server that had minted an id before
C5_Witness ==
    /\ hs.via # "none"
    /\ hs.first = Hello(PROTOCOL_VERSION)
    /\ hs.second = Hello(PROTOCOL_VERSION)
    /\ ~hs.ok
    /\ NEXT_CLIENT_ID > FIRST_CLIENT_ID

\* C6 - per-tick ordering: the snapshots of a step that drained datagrams carry the
\* step's tick and the world as it is after the drain, and that tick is later than
\* the tick of every snapshot emitted before those datagrams were drained.
C6_PerTickOrdering ==
    [][(StepEnded /\ pc = "recv" /\ sent' # {})
       => /\ \A d \in sent' :
                /\ d.payload.tick = tick
                /\ d.payload.entities =
                       {[id |-> e, position |-> world.position[e]] :
                           e \in DOMAIN world.position}
          /\ tick' = tick + 1
          /\ lastSnapTick # -1 => tick > lastSnapTick]_vars

\* C7 - identical contents: the snapshots one step sends all carry the same tick
\* and the same entity list.
C7_IdenticalSnapshots ==
    \A d1, d2 \in sent :
        /\ d1.payload.tick = d2.payload.tick
        /\ d1.payload.entities = d2.payload.entities

\* a step sent snapshots with a non-empty entity list to two clients
C7_Witness ==
    /\ pc = "idle"
    /\ \E d1, d2 \in sent : d1.client # d2.client /\ d1.payload.entities # {}

\* C8 - ready persistence: every step of a server that has left Idle sends a
\* snapshot to every client a processed ClientReady has named.
C8_ReadyPersistence ==
    [][(StepEnded /\ state # "Idle") => readied \subseteq Recipients(sent')]_vars

(* ------------------ client_server_full_roundtrip ---------------------- *)
\* SnapshotBuffer: history and max
SnapshotBuffer_new(max) == [history |-> <<>>, max |-> max]

\* push as it would be if a full buffer dropped its newest entry
push_pop_back(buf, snap) ==
    LET h == Append(buf.history, snap)
    IN [buf EXCEPT !.history = IF Len(h) > buf.max THEN SubSeq(h, 1, buf.max) ELSE h]

push(buf, snap) ==
    LET h == Append(buf.history, snap)
    IN [buf EXCEPT !.history =
            IF Len(h) > buf.max THEN SubSeq(h, Len(h) - buf.max + 1, Len(h)) ELSE h]

last_snapshot(buf) ==
    IF buf.history = <<>> THEN None ELSE Some(buf.history[Len(buf.history)])

\* InputState::wish_vector and build_command
wish_vector(input) == Vec3(input.forward, input.right, input.up)
build_command(client_id, t, input) == PlayerCommand(client_id, t, wish_vector(input))

\* the test's client: its udp port and the input it samples every iteration
TestUdpPort == 50000
TestInput == [forward |-> 1, right |-> 0, up |-> 0]

\* the test before either task has run: the server task is at accept_one, the
\* client task at GameClient::connect
RoundtripInit ==
    [on |-> TRUE, server |-> "accept", steps |-> 0, client |-> "connect", iters |-> 0,
     client_id |-> None, client_tick |-> 0, snaps |-> SnapshotBuffer_new(SNAP_CAPACITY),
     to_server |-> <<>>, to_client |-> <<>>]

\* GameClient::connect against accept_one: Hello, UdpHello, Welcome; the server has
\* no map, so poll_reliable finds no MapInfo and the client stays Connected
RtConnect ==
    /\ rt.server = "accept"
    /\ rt.client = "connect"
    /\ LET peer == Peer(Hello(PROTOCOL_VERSION), UdpHello(TestUdpPort), "none")
           r == accept_one(Self, NEXT_CLIENT_ID, PeerIp, peer.first, peer.second, peer.fail)
       IN /\ Handshaken("accept_one", peer, r)
          /\ rt' = [rt EXCEPT !.server = "loop", !.client = "tick", !.client_id = r.id]
    /\ UNCHANGED << faults, conn, gc, lib >>

\* the server task enters step
RtStepBegin ==
    /\ rt.server = "loop"
    /\ StepBegin
    /\ UNCHANGED harness

\* recv_commands takes the oldest datagram that has reached the server socket
RtRecvDatagram ==
    /\ rt.to_server # <<>>
    /\ RecvDatagram(Head(rt.to_server))
    /\ rt' = [rt EXCEPT !.to_server = Tail(@)]
    /\ UNCHANGED << faults, conn, gc, lib >>

\* step runs to its end; its snapshots for the client's socket are in flight
RtStepEnd ==
    /\ StepEnd
    /\ LET mine == {d \in sent' : d.to = SocketAddr_new(PeerIp, TestUdpPort)}
           n == rt.steps + 1
       IN rt' = [rt EXCEPT !.steps = n,
                           !.server = IF n = TEST_TICKS THEN "done" ELSE "loop",
                           !.to_client = IF mine = {} THEN @
                                         ELSE Append(@, (CHOOSE d \in mine : TRUE).payload)]
    /\ UNCHANGED << faults, conn, gc, lib >>

\* GameClient::tick: build the command, send it, advance the client tick
RtClientTick ==
    /\ rt.client = "tick"
    /\ LET cmd == build_command(Unwrap(rt.client_id), rt.client_tick, TestInput)
       IN rt' = [rt EXCEPT !.to_server =
                               Append(@, Datagram(SocketAddr_new(PeerIp, TestUdpPort), cmd)),
                           !.client_tick = @ + 1,
                           !.client = "recv"]
    /\ UNCHANGED server
    /\ UNCHANGED << faults, conn, gc, lib >>

\* GameClient::recv_snapshot: a datagram within the timeout is pushed if it is a
\* Snapshot; otherwise the timeout passes. Then the loop's next iteration.
RtClientRecvSnapshot ==
    /\ rt.client = "recv"
    /\ LET n == rt.iters + 1
           got == rt.to_client # <<>>
       IN rt' = [rt EXCEPT !.snaps = IF got /\ Head(rt.to_client).type = "Snapshot"
                                     THEN push(@, Head(rt.to_client)) ELSE @,
                           !.to_client = IF got THEN Tail(@) ELSE @,
                           !.iters = n,
                           !.client = IF n = TEST_TICKS THEN "done" ELSE "tick"]
    /\ UNCHANGED server
    /\ UNCHANGED << faults, conn, gc, lib >>

InitRoundtrip ==
    /\ InitServer("Running")
    /\ rt = RoundtripInit
    /\ faults = NoFaults
    /\ conn = NoConn
    /\ gc = NoClient
    /\ lib = NoLib

NextRoundtrip ==
    \/ RtConnect
    \/ RtStepBegin
    \/ RtRecvDatagram
    \/ RtStepEnd
    \/ RtClientTick
    \/ RtClientRecvSnapshot

SpecRoundtrip == InitRoundtrip /\ [][NextRoundtrip]_vars

\* C9 - end-to-end delivery: when the test's ten server steps and ten client
\* iterations are over, the client's snapshot buffer holds at least one snapshot.
C9_RoundtripSnapshot ==
    (rt.on /\ rt.server = "done" /\ rt.client = "done") => IsSome(last_snapshot(rt.snaps))

\* C10 - input-to-snapshot loop: in every snapshot, the avatar of a ready client,
\* spawned into the current world at spawn point s and followed by k commands
\* naming that client with wish w each, is listed at s + k * w tenths.
UniformWish(log) == \A i, j \in 1..Len(log) : log[i] = log[j]
SpawnPoint ==
    LET points == IF IsSome(current_map) THEN spawn_points(Unwrap(current_map)) ELSE <<>>
    IN IF Len(points) > 0 THEN points[1] ELSE ZERO
Displaced(s, k, w) ==
    Vec3(s.x + k * w.x * STEP_TENTHS, s.y + k * w.y * STEP_TENTHS, s.z + k * w.z * STEP_TENTHS)
AvatarAt(c) ==
    LET k == Len(cmds[c])
    IN IF k = 0 THEN SpawnPoint ELSE Displaced(SpawnPoint, k, cmds[c][1])
C10_InputToSnapshot ==
    \A d \in sent : \A c \in avatars :
        (clients[c].ready /\ UniformWish(cmds[c]))
        => [id |-> Unwrap(clients[c].player_entity), position |-> AvatarAt(c)]
               \in d.payload.entities

\* recv_commands has just handled one datagram
DrainStep == pc # "idle" /\ pc' = "recv"
\* process_console_commands has just executed one line
ConsoleStep == pc = "console" /\ pc' = "console"

\* C11 - ClientReady only for known clients: a datagram that leaves the client
\* table as it was (a ClientReady naming an unknown id among them) spawns no
\* entity; a record that gets a player entity is ready and that entity stands at
\* the first spawn point of the loaded map, or at the origin if there is none.
C11_ClientReadyKnownOnly ==
    [][DrainStep
       => /\ clients' = clients => world'.next_id = world.next_id
          /\ \A c \in DOMAIN clients :
                clients'[c].player_entity # clients[c].player_entity
                => /\ clients'[c].ready
                   /\ clients'[c].player_entity = Some(world.next_id)
                   /\ world'.position[world.next_id] = SpawnPoint]_vars

\* C12 - failed map load restores the prior state: a console line executed in
\* state Idle or Running either ends in Running, or leaves state, world, loaded
\* map and tick as they were.
C12_FailedLoadRestores ==
    [][(ConsoleStep /\ state \in {"Idle", "Running"})
       => \/ state' = "Running"
          \/ /\ state' = state
             /\ world' = world
             /\ current_map' = current_map
             /\ tick' = tick]_vars

\* C20 - ready means the current map is acknowledged: every ready record was
\* made ready by a ClientReady processed since the current world was loaded, and
\* snapshots go only to such clients.
C20_ReadyAcknowledgesMap ==
    /\ \A c \in DOMAIN clients : clients[c].ready => c \in avatars
    /\ \A d \in sent : d.client \in avatars

(* --------------------- transport failures, main loop ------------------ *)
RECURSIVE NonWorldspawn(_)
NonWorldspawn(ents) ==
    IF ents = <<>> THEN <<>>
    ELSE (IF Head(ents).classname = "worldspawn" THEN <<>> ELSE <<Head(ents)>>)
         \o NonWorldspawn(Tail(ents))

\* send_entity_spawns: nothing to send without a map; Err for an unknown client;
\* Err from the first reliable send if the connection is broken. The record stays.
send_entity_spawns(S, client_id, broken_conn) ==
    IF ~IsSome(S.current_map) THEN [ok |-> TRUE, spawns |-> 0, clients |-> S.clients]
    ELSE IF client_id \notin DOMAIN S.clients
    THEN [ok |-> FALSE, spawns |-> 0, clients |-> S.clients]
    ELSE LET ents == NonWorldspawn(Unwrap(S.current_map).entities)
         IN IF broken_conn /\ Len(ents) > 0
            THEN [ok |-> FALSE, spawns |-> 0, clients |-> S.clients]
            ELSE [ok |-> TRUE, spawns |-> Len(ents), clients |-> S.clients]

\* send_snapshots as it would be if a failed send_to were propagated with `?`
send_snapshots_outcome_strict(S, unreachable) ==
    [ok |-> \A d \in send_snapshots(S) : d.client \notin unreachable,
     delivered |-> {d \in send_snapshots(S) : d.client \notin unreachable}]

\* the Result of send_snapshots when send_to fails for the clients in unreachable:
\* `let _ =` drops each send error
send_snapshots_outcome(S, unreachable) ==
    [ok |-> TRUE,
     delivered |-> {d \in send_snapshots(S) : d.client \notin unreachable}]

\* broken: clients whose reliable connection failed or was closed by the peer;
\* exited: main has returned, because of cause; event, who: the per-client
\* failure the latest action met, if any
FaultsInit == [on |-> TRUE, broken |-> {}, exited |-> FALSE, cause |-> "none",
               event |-> "none", who |-> {}]
Met(event, who) == [faults EXCEPT !.event = event, !.who = who]
Quiet == Met("none", {})

\* main: try_accept; an Err of the handshake is dropped by `if let Ok(Some(cid))`
FtTryAccept ==
    /\ ~faults.exited
    /\ pc = "idle"
    /\ nconns < MaxConns
    /\ \E peer \in Peers :
          LET r == handle_new_connection(Self, NEXT_CLIENT_ID, PeerIp,
                                         peer.first, peer.second, peer.fail)
          IN /\ Handshaken("try_accept", peer, r)
             /\ faults' = IF r.ok THEN Quiet ELSE Met("handshake", {})
    /\ UNCHANGED << rt, conn, gc, lib >>

FtStepBegin ==
    /\ ~faults.exited
    /\ tick < MaxTick
    /\ StepBegin
    /\ faults' = Quiet
    /\ UNCHANGED << rt, conn, gc, lib >>

FtExecLine ==
    /\ \E line \in {Line("map", Some("de_two")), Line("map", Some("missing"))} :
          ExecLine(line)
    /\ faults' = Quiet
    /\ UNCHANGED << rt, conn, gc, lib >>

FtRecvDatagram ==
    /\ \E id \in 1..MaxConns :
          RecvDatagram(Datagram(SocketAddr_new(PeerIp, 50000), ClientReady(id)))
    /\ Capped
    /\ faults' = Quiet
    /\ UNCHANGED << rt, conn, gc, lib >>

\* try_recv_from fails with an error other than WouldBlock: recv_commands and step
\* return it, and main returns through `?`
FtRecvError ==
    /\ pc \in {"console", "recv"}
    /\ pc' = "idle"
    /\ faults' = [Quiet EXCEPT !.exited = TRUE, !.cause = "udp recv"]
    /\ UNCHANGED << world, clients, tick, state, current_map, NEXT_CLIENT_ID, nconns, hs,
                    sent, broadcast, lastSnapTick, readied, avatars, cmds >>
    /\ UNCHANGED << rt, conn, gc, lib >>

\* the rest of step, with send_to failing for the clients in unreachable
FtStepEnd ==
    /\ pc \in {"console", "recv"}
    /\ \E unreachable \in SUBSET {c \in DOMAIN clients : clients[c].ready} :
          LET o == send_snapshots_outcome(Self, unreachable)
          IN IF state # "Running" \/ o.ok
             THEN /\ StepEnd
                  /\ faults' = IF state = "Running" /\ unreachable # {}
                               THEN Met("send", unreachable) ELSE Quiet
             ELSE /\ pc' = "idle"
                  /\ faults' = [Met("send", unreachable) EXCEPT
                                   !.exited = TRUE, !.cause = "udp send"]
                  /\ UNCHANGED << world, clients, tick, state, current_map, NEXT_CLIENT_ID,
                                  nconns, hs, sent, broadcast, lastSnapTick, readied,
                                  avatars, cmds >>
    /\ UNCHANGED << rt, conn, gc, lib >>

\* send_entity_spawns is called for a client; the write fails if its connection
\* is broken, or breaks now
FtSendEntitySpawns ==
    /\ ~faults.exited
    /\ pc = "idle"
    /\ \E c \in DOMAIN clients, breaks \in BOOLEAN :
          LET r == send_entity_spawns(Self, c, breaks \/ c \in faults.broken)
          IN /\ clients' = r.clients
             /\ faults' = IF r.ok THEN Quiet
                          ELSE [Met("reliable", {c}) EXCEPT !.broken = @ \cup {c}]
    /\ UNCHANGED << world, tick, state, current_map, NEXT_CLIENT_ID, pc, nconns, hs, sent,
                    broadcast, lastSnapTick, readied, avatars, cmds >>
    /\ UNCHANGED << rt, conn, gc, lib >>

\* a client closes its reliable connection; nothing in the server reads it
FtPeerDisconnect ==
    /\ ~faults.exited
    /\ pc = "idle"
    /\ \E c \in DOMAIN clients \ faults.broken :
          faults' = [Met("disconnect", {c}) EXCEPT !.broken = @ \cup {c}]
    /\ UNCHANGED server
    /\ UNCHANGED << rt, conn, gc, lib >>

InitFaults ==
    /\ \E st \in {"Idle", "Running"} : InitServer(st)
    /\ rt = NoRoundtrip
    /\ faults = FaultsInit
    /\ conn = NoConn
    /\ gc = NoClient
    /\ lib = NoLib

NextFaults ==
    \/ FtTryAccept
    \/ FtStepBegin
    \/ FtExecLine
    \/ FtRecvDatagram
    \/ FtRecvError
    \/ FtStepEnd
    \/ FtSendEntitySpawns
    \/ FtPeerDisconnect

SpecFaults == InitFaults /\ [][NextFaults]_vars

\* C13 - record lifecycle: a client whose reliable connection has failed, or who
\* has disconnected, has no record (and so is in no broadcast set).
C13_RecordLifecycle ==
    faults.on => faults.broken \cap DOMAIN clients = {}

\* C15 - per-client failures stay per-client: main returns only for an error of
\* the shared socket, and an action that meets a failed handshake, a failed
\* datagram send or a reliable-connection error leaves every other client's
\* record as it was.
C15_FailuresConfined ==
    [][faults.on
       => /\ faults'.exited => faults'.cause = "udp recv"
          /\ faults'.event # "none"
             => \A c \in DOMAIN clients \ faults'.who :
                   c \in DOMAIN clients' /\ clients'[c] = clients[c]]_vars

\* a step met a failed send to a ready client and main went on
C15_Witness ==
    /\ faults.on
    /\ faults.event = "send"
    /\ ~faults.exited
    /\ pc = "idle"
    /\ Cardinality(DOMAIN clients) = 2

(* ------------------- handshake reads in the main task ----------------- *)
\* the connection try_accept has taken from the listener: at is the conn.recv()
\* handle_new_connection is waiting in, inbox the frames the peer has sent so
\* far, first the frame the first recv returned
ConnIdle == [on |-> TRUE, at |-> "none", inbox |-> <<>>, first |-> RecvErr]
PeerFrames == {Hello(PROTOCOL_VERSION), Hello(PROTOCOL_VERSION + 1), UdpHello(50000), RecvErr}

\* try_accept: tcp.accept() yields a connection within the timeout;
\* handle_new_connection starts and awaits its first frame
StAccept ==
    /\ pc = "idle"
    /\ conn.at = "none"
    /\ nconns < MaxConns
    /\ conn' = [ConnIdle EXCEPT !.at = "hello"]
    /\ UNCHANGED server
    /\ UNCHANGED << rt, faults, gc, lib >>

\* the peer sends a frame, or closes the connection (RecvErr); it may do neither
StPeerSend ==
    /\ conn.at # "none"
    /\ Len(conn.inbox) < 2
    /\ \E f \in PeerFrames : conn' = [conn EXCEPT !.inbox = Append(@, f)]
    /\ UNCHANGED server
    /\ UNCHANGED << rt, faults, gc, lib >>

\* `let msg = conn.recv().await?` returns once the peer has sent something; a
\* frame other than the expected Hello ends the handshake, the second frame unread
StReadHello ==
    /\ conn.at = "hello"
    /\ conn.inbox # <<>>
    /\ LET f == Head(conn.inbox)
       IN IF f = Hello(PROTOCOL_VERSION)
          THEN /\ conn' = [conn EXCEPT !.at = "udphello", !.inbox = Tail(@), !.first = f]
               /\ UNCHANGED server
          ELSE /\ Handshaken("try_accept", Peer(f, RecvErr, "none"),
                             handle_new_connection(Self, NEXT_CLIENT_ID, PeerIp,
                                                   f, RecvErr, "none"))
               /\ conn' = ConnIdle
    /\ UNCHANGED << rt, faults, gc, lib >>

\* `let udp_hello = conn.recv().await?` returns, and the handshake runs to its end
StReadUdpHello ==
    /\ conn.at = "udphello"
    /\ conn.inbox # <<>>
    /\ LET peer == Peer(conn.first, Head(conn.inbox), "none")
       IN Handshaken("try_accept", peer,
                     handle_new_connection(Self, NEXT_CLIENT_ID, PeerIp,
                                           peer.first, peer.second, peer.fail))
    /\ conn' = ConnIdle
    /\ UNCHANGED << rt, faults, gc, lib >>

\* main reaches server.step only when try_accept has returned
StStepBegin ==
    /\ conn.at = "none"
    /\ tick < MaxTick
    /\ StepBegin
    /\ UNCHANGED harness

StStepEnd ==
    /\ StepEnd
    /\ UNCHANGED harness

\* what the main task can do on its own, whatever the peer does
MainTaskStep == StAccept \/ StReadHello \/ StReadUdpHello \/ StStepBegin \/ StStepEnd

InitStall ==
    /\ \E st \in {"Idle", "Running"} : InitServer(st)
    /\ rt = NoRoundtrip
    /\ faults = NoFaults
    /\ conn = ConnIdle
    /\ gc = NoClient
    /\ lib = NoLib

NextStall ==
    \/ StAccept
    \/ StPeerSend
    \/ StReadHello
    \/ StReadUdpHello
    \/ StStepBegin
    \/ StStepEnd

SpecStall == InitStall /\ [][NextStall]_vars

\* C14 - the main loop cannot be stalled by a peer: as long as steps remain to be
\* run, the main task can always go on by itself, without a frame from the peer
\* whose connection it has accepted.
C14_MainLoopNotStalled ==
    (conn.on /\ tick < MaxTick) => ENABLED MainTaskStep

(* --------------------------- client program --------------------------- *)
\* gc holds the GameClient (client_id, state, snaps, tick, current_map, pending_map,
\* maps_dir, spawned_entities), the reliable stream from the server (inbox: what the
\* server has written and the client has not read; closing: the stream fails once
\* inbox is read), the position of main (at), and observations: assigned (the
\* states the latest operation assigned), handled (reliable messages handled),
\* held (snapshots buffered before the latest poll), ready_sent, lines, emitted
\* (ticks of the PlayerCommands sent), send_failed (a tick() call has failed),
\* dgram and recv_ok (what the latest recv_snapshot got, and whether it returned Ok).
Disconnect == [type |-> "Disconnect"]
EntitySpawn == [type |-> "EntitySpawn", classname |-> "light"]
Timeout == [type |-> "Timeout"]

\* BspMap::load of maps_dir/<name>.bsp on the client
ClientBspLoad(C, name) == IF name \in C.maps_dir THEN BspMap_load(name) ELSE None

Assign(C, st) == [C EXCEPT !.state = st, !.assigned = Append(@, st)]

\* load_map as it would be if it kept the snapshot buffer
GameClient_load_map_keep_snaps(C, map_name) ==
    LET bsp == ClientBspLoad(C, map_name)
    IN IF ~IsSome(bsp) THEN [ok |-> FALSE, c |-> C]
       ELSE [ok |-> TRUE,
             c |-> Assign([C EXCEPT !.current_map = bsp, !.spawned_entities = <<>>], "Ready")]

GameClient_load_map(C, map_name) ==
    LET bsp == ClientBspLoad(C, map_name)
    IN IF ~IsSome(bsp) THEN [ok |-> FALSE, c |-> C]
       ELSE [ok |-> TRUE,
             c |-> Assign([C EXCEPT !.current_map = bsp,
                                    !.spawned_entities = <<>>,
                                    !.snaps = SnapshotBuffer_new(SNAP_CAPACITY)], "Ready")]

handle_reliable_message(C, msg) ==
    LET H == [C EXCEPT !.handled = Append(@, msg)]
    IN CASE msg.type = "MapInfo" ->
                GameClient_load_map(Assign([H EXCEPT !.pending_map = Some(msg)], "LoadingMap"),
                                    msg.name)
         [] msg.type = "EntitySpawn" ->
                [ok |-> TRUE, c |-> [H EXCEPT !.spawned_entities = Append(@, msg)]]
         [] msg.type = "Disconnect" ->
                [ok |-> TRUE, c |-> Assign(H, "Disconnected")]
         [] OTHER -> [ok |-> TRUE, c |-> H]

\* got: what reliable.recv() yields within 10 ms: a message, an error, or nothing
poll_reliable(C, got) ==
    CASE got = Timeout -> [ok |-> TRUE, c |-> C]
      [] got = RecvErr -> [ok |-> TRUE, c |-> Assign(C, "Disconnected")]
      [] OTHER -> handle_reliable_message(C, got)

send_ready(C) == ClientReady(C.client_id)

\* tick as it would be if the counter advanced before the send
GameClient_tick_count_first(C, input, send_ok) ==
    [ok |-> send_ok, cmd |-> build_command(C.client_id, C.tick, input),
     c |-> [C EXCEPT !.tick = @ + 1]]

\* send_ok: the outcome of unreliable.send; its error leaves through `?` before
\* the counter is advanced
GameClient_tick(C, input, send_ok) ==
    [ok |-> send_ok, cmd |-> build_command(C.client_id, C.tick, input),
     c |-> IF send_ok THEN [C EXCEPT !.tick = @ + 1] ELSE C]

\* UnreliableConn::recv_timeout: got is the datagram that arrives within the
\* timeout, if any; bytes that do not decode are returned as an error
recv_timeout(got) ==
    IF ~IsSome(got) THEN [ok |-> TRUE, msg |-> None]
    ELSE LET msg == decode_datagram(Unwrap(got))
         IN IF IsSome(msg) THEN [ok |-> TRUE, msg |-> msg] ELSE [ok |-> FALSE, msg |-> None]

\* recv_snapshot: the error of recv_timeout leaves through `?`
recv_snapshot(C, got) ==
    LET r == recv_timeout(got)
    IN IF ~r.ok THEN [ok |-> FALSE, c |-> C]
       ELSE IF IsSome(r.msg) /\ Unwrap(r.msg).type = "Snapshot"
       THEN [ok |-> TRUE, c |-> [C EXCEPT !.snaps = push(@, Unwrap(r.msg))]]
       ELSE [ok |-> TRUE, c |-> C]

GameClient_exec_console(C, line) ==
    CASE line.cmd = "disconnect" -> Assign(C, "Disconnected")
      [] line.cmd = "map" /\ IsSome(line.arg) -> GameClient_load_map(C, Unwrap(line.arg)).c
      [] OTHER -> C

\* the input main samples every iteration
FakeInput == [forward |-> 0, right |-> 0, up |-> 0]

\* what the server writes on the reliable stream after Welcome
ServerMsgs == {MapInfoMsg("de_one"), MapInfoMsg("de_two"), Disconnect, EntitySpawn}
ServerStreams ==
    {<<>>} \cup UNION {[1..n -> ServerMsgs] : n \in 1..MaxMsgs}
ClientMapsDirs == {{"de_one", "de_two"}, {"de_one"}}
ClientLines == {Line("map", Some("de_one")), Line("map", Some("missing")),
                Line("disconnect", None), Line("status", None)}

\* GameClient::connect up to the construction of Self: Welcome has been read
GameClient_connected(id, maps, stream, closing) ==
    [on |-> TRUE, client_id |-> id, state |-> "Connected",
     snaps |-> SnapshotBuffer_new(SNAP_CAPACITY), tick |-> 0,
     current_map |-> None, pending_map |-> None, maps_dir |-> maps,
     spawned_entities |-> <<>>,
     inbox |-> stream, closing |-> closing, at |-> "connect",
     assigned |-> <<>>, handled |-> <<>>, held |-> 0, ready_sent |-> 0, lines |-> 0,
     emitted |-> <<>>, send_failed |-> FALSE, dgram |-> "none", recv_ok |-> TRUE]

\* what a reliable read can yield now
Readable ==
    {Timeout} \cup (IF gc.inbox # <<>> THEN {Head(gc.inbox)}
                    ELSE IF gc.closing THEN {RecvErr} ELSE {})
Polled(got) ==
    [gc EXCEPT !.assigned = <<>>,
               !.held = Len(gc.snaps.history),
               !.inbox = IF got \in {Timeout, RecvErr} THEN @ ELSE Tail(@)]

\* connect: `client.poll_reliable().await?`, the check for an immediate MapInfo
ClConnectPoll ==
    /\ gc.at = "connect"
    /\ \E got \in Readable :
          LET r == poll_reliable(Polled(got), got)
          IN gc' = [r.c EXCEPT !.at = IF r.ok THEN "start" ELSE "failed"]
    /\ UNCHANGED server
    /\ UNCHANGED << rt, faults, conn, lib >>

\* main after connect: load the pending map if still LoadingMap, and send
\* ClientReady if Ready
ClStart ==
    /\ gc.at = "start"
    /\ LET C0 == [gc EXCEPT !.assigned = <<>>]
           r == IF C0.state = "LoadingMap" /\ IsSome(C0.pending_map)
                THEN GameClient_load_map(C0, Unwrap(C0.pending_map).name)
                ELSE [ok |-> FALSE, c |-> C0]
           n == (IF r.ok THEN 1 ELSE 0) + (IF r.c.state = "Ready" THEN 1 ELSE 0)
       IN gc' = [r.c EXCEPT !.at = "console", !.ready_sent = @ + n]
    /\ UNCHANGED server
    /\ UNCHANGED << rt, faults, conn, lib >>

\* the loop: a console line is waiting and is executed
ClExecLine ==
    /\ gc.at = "console"
    /\ gc.lines < MaxLines
    /\ \E line \in ClientLines :
          gc' = [GameClient_exec_console([gc EXCEPT !.assigned = <<>>], line)
                    EXCEPT !.lines = @ + 1]
    /\ UNCHANGED server
    /\ UNCHANGED << rt, faults, conn, lib >>

\* the loop: `client.poll_reliable().await?`, then the test for Disconnected
ClPoll ==
    /\ gc.at = "console"
    /\ \E got \in Readable :
          LET r == poll_reliable(Polled(got), got)
          IN gc' = [r.c EXCEPT !.at = IF ~r.ok THEN "failed"
                                      ELSE IF r.c.state = "Disconnected" THEN "exited"
                                      ELSE IF r.c.state = "Ready" THEN "game"
                                      ELSE "sleep"]
    /\ UNCHANGED server
    /\ UNCHANGED << rt, faults, conn, lib >>

\* the loop, client Ready: tick, then recv_snapshot, the error of either printed;
\* the send fails at most once in a run
ClGame ==
    /\ gc.at = "game"
    /\ gc.tick < MaxClientTick
    /\ \E got \in {None, Some(SnapshotMsg(gc.tick, {})), Some(Malformed)},
          send_ok \in (IF gc.send_failed THEN {TRUE} ELSE BOOLEAN) :
          LET t == GameClient_tick([gc EXCEPT !.assigned = <<>>], FakeInput, send_ok)
              r == recv_snapshot(t.c, got)
          IN gc' = [r.c EXCEPT
                       !.at = "sleep",
                       !.dgram = IF IsSome(got) THEN Unwrap(got).type ELSE "none",
                       !.recv_ok = r.ok,
                       !.emitted = IF t.ok THEN Append(@, t.cmd.tick) ELSE @,
                       !.send_failed = @ \/ ~t.ok]
    /\ UNCHANGED server
    /\ UNCHANGED << rt, faults, conn, lib >>

\* the loop: sleep(tick_interval), then the next iteration
ClSleep ==
    /\ gc.at = "sleep"
    /\ gc' = [gc EXCEPT !.at = "console"]
    /\ UNCHANGED server
    /\ UNCHANGED << rt, faults, conn, lib >>

InitClient ==
    /\ InitServer("Running")
    /\ rt = NoRoundtrip
    /\ faults = NoFaults
    /\ conn = NoConn
    /\ lib = NoLib
    /\ \E maps \in ClientMapsDirs, stream \in ServerStreams, closing \in BOOLEAN :
          gc = GameClient_connected(FIRST_CLIENT_ID, maps, stream, closing)

NextClient ==
    \/ ClConnectPoll
    \/ ClStart
    \/ ClExecLine
    \/ ClPoll
    \/ ClGame
    \/ ClSleep

SpecClient == InitClient /\ [][NextClient]_vars

\* the latest action handled a MapInfo
HandledMapInfo ==
    /\ gc.on
    /\ Len(gc'.handled) = Len(gc.handled) + 1
    /\ gc'.handled[Len(gc'.handled)].type = "MapInfo"
LatestHandled == gc'.handled[Len(gc'.handled)]

\* C16 - client disconnect is terminal: no operation moves the client state out
\* of Disconnected.
C16_DisconnectTerminal ==
    [][(gc.on /\ gc.state = "Disconnected") => gc'.state = "Disconnected"]_vars

\* C17 - client map-load failure: handling a MapInfo whose map the client cannot
\* load leaves the client Disconnected.
C17_LoadFailureDisconnects ==
    [][(HandledMapInfo /\ LatestHandled.name \notin gc.maps_dir)
       => gc'.state = "Disconnected"]_vars

\* C18 - client MapInfo handling: handling a MapInfo records it as the pending map
\* and first assigns LoadingMap; if the named map loads, the client ends Ready
\* with that map stored and an empty snapshot buffer.
C18_MapInfoHandling ==
    [][HandledMapInfo
       => /\ gc'.pending_map = Some(LatestHandled)
          /\ gc'.assigned # <<>>
          /\ Head(gc'.assigned) = "LoadingMap"
          /\ LatestHandled.name \in gc.maps_dir
             => /\ gc'.state = "Ready"
                /\ gc'.current_map = BspMap_load(LatestHandled.name)
                /\ gc'.snaps.history = <<>>]_vars

\* a poll of the loop handled a loadable MapInfo while snapshots were buffered
C18_Witness ==
    /\ gc.on
    /\ gc.at = "game"
    /\ gc.held > 0
    /\ gc.assigned = <<"LoadingMap", "Ready">>
    /\ gc.snaps.history = <<>>

\* C19 - Welcome-then-map race: a client that has handled the MapInfo of a map it
\* can load, whether in connect or in a later poll, and has run its game loop
\* MaxClientTick times has sent ClientReady.
C19_WelcomeThenMap ==
    (/\ gc.on
     /\ gc.lines = 0
     /\ Len(gc.handled) = 1
     /\ gc.handled[1].type = "MapInfo"
     /\ gc.handled[1].name \in gc.maps_dir
     /\ gc.tick = MaxClientTick)
    => gc.ready_sent > 0

(* ------------------------ library types on their own ------------------ *)
\* the programs at rest while lib holds the library value under test
Library(l) ==
    /\ InitServer("Idle")
    /\ rt = NoRoundtrip
    /\ faults = NoFaults
    /\ conn = NoConn
    /\ gc = NoClient
    /\ lib = l

(* ClientId::new_unique *)
Threads == 1..MaxThreads

\* new_unique with the counter read but not advanced
new_unique_load(counter) == [id |-> counter, counter |-> counter]

\* NEXT_CLIENT_ID.fetch_add(1, Relaxed): one atomic read-modify-write. The u32
\* wraps after 2^32 - 1 calls, far beyond MaxAllocs.
new_unique(counter) == [id |-> counter, counter |-> counter + 1]

\* the static counter of a fresh process, and the ids each thread has got, in
\* the order it got them
IdsInit == [on |-> TRUE, NEXT_CLIENT_ID |-> FIRST_CLIENT_ID,
            got |-> [t \in Threads |-> <<>>], calls |-> 0]

\* thread t calls ClientId::new_unique()
IdsNewUnique ==
    /\ lib.calls < MaxAllocs
    /\ \E t \in Threads :
          LET r == new_unique(lib.NEXT_CLIENT_ID)
          IN lib' = [lib EXCEPT !.NEXT_CLIENT_ID = r.counter,
                                !.got[t] = Append(@, r.id),
                                !.calls = @ + 1]
    /\ UNCHANGED programs

InitIds == Library(IdsInit)
NextIds == IdsNewUnique
SpecIds == InitIds /\ [][NextIds]_vars

IdsOf(t) == {lib.got[t][i] : i \in 1..Len(lib.got[t])}
AllIds == UNION {IdsOf(t) : t \in Threads}

\* C21 - client id uniqueness: over all calls of new_unique made so far, by
\* whatever threads, no two returned the same value and none returned zero.
C21_ClientIdUnique ==
    lib.on => /\ Cardinality(AllIds) = lib.calls
              /\ 0 \notin AllIds

\* every thread has allocated, and one thread got ids on both sides of another's
C21_Witness ==
    /\ lib.on
    /\ lib.calls = MaxAllocs
    /\ \A t \in Threads : lib.got[t] # <<>>
    /\ \E t, u \in Threads :
          /\ Len(lib.got[t]) >= 2
          /\ lib.got[t][1] < lib.got[u][1]
          /\ lib.got[u][1] < lib.got[t][2]

(* SnapshotBuffer *)
SnapshotBuffer_len(buf) == Len(buf.history)
Min(a, b) == IF a < b THEN a ELSE b

\* a buffer of capacity max, and every snapshot pushed into it so far
BufferInit(max) == [on |-> TRUE, buf |-> SnapshotBuffer_new(max), pushed |-> <<>>]

\* buf.push(snap): the next tick, with or without an entity
BufPush ==
    /\ Len(lib.pushed) < MaxPushes
    /\ \E ents \in {{}, {[id |-> 0, position |-> ZERO]}} :
          LET snap == SnapshotMsg(Len(lib.pushed), ents)
          IN lib' = [lib EXCEPT !.buf = push(@, snap), !.pushed = Append(@, snap)]
    /\ UNCHANGED programs

InitBuffer == \E max \in 0..MaxCap : Library(BufferInit(max))
NextBuffer == BufPush
SpecBuffer == InitBuffer /\ [][NextBuffer]_vars

\* C22 - snapshot buffer bound: after k pushes into a buffer of capacity N the
\* length is min(N, k) and the entries are the last min(N, k) snapshots pushed,
\* in push order.
C22_BufferBound ==
    lib.on =>
        LET k == Len(lib.pushed)
            n == Min(lib.buf.max, k)
        IN /\ SnapshotBuffer_len(lib.buf) = n
           /\ lib.buf.history = SubSeq(lib.pushed, k - n + 1, k)

\* more snapshots were pushed than the buffer holds: the oldest are gone
C22_Witness ==
    /\ lib.on
    /\ lib.buf.max = MaxCap
    /\ Len(lib.pushed) = MaxPushes
    /\ lib.buf.history[1].tick = MaxPushes - MaxCap

(* SnapshotBuffer::interp_entity, Vec3::lerp *)
\* f32 values are written in halves here (n stands for n/2), so that 0.5 and the
\* whole numbers up to 2^30 are at hand. An f32 keeps 24 significant bits: the
\* result of each operation is rounded to them, ties to even.
F32_SIGNIFICAND == 16777216
Abs(n) == IF n < 0 THEN -n ELSE n
RECURSIVE Ulp(_)
Ulp(n) == IF n < F32_SIGNIFICAND THEN 1 ELSE 2 * Ulp(n \div 2)
F32(n) ==
    LET m == Abs(n)
        u == Ulp(m)
        q == m \div u
        r == m % u
        up == 2 * r > u \/ (2 * r = u /\ q % 2 = 1)
        v == (IF up THEN q + 1 ELSE q) * u
    IN IF n < 0 THEN -v ELSE v
F32_sub(a, b) == F32(a - b)
F32_add(a, b) == F32(a + b)
\* a * b, both in halves: the product of whole or half numbers at hand is exact
F32_mul(a, b) == F32((a * b) \div 2)
clamp(t, lo, hi) == IF t < lo THEN lo ELSE IF t > hi THEN hi ELSE t

\* Vec3::lerp
lerp(from, to, t) ==
    LET c == clamp(t, 0, 2)
    IN Vec3(F32_add(from.x, F32_mul(F32_sub(to.x, from.x), c)),
            F32_add(from.y, F32_mul(F32_sub(to.y, from.y), c)),
            F32_add(from.z, F32_mul(F32_sub(to.z, from.z), c)))

\* entities.iter().find(|e| e.id == entity).map(|e| e.position), on a Vec
RECURSIVE find_position(_, _)
find_position(ents, entity) ==
    IF ents = <<>> THEN None
    ELSE IF Head(ents).id = entity THEN Some(Head(ents).position)
    ELSE find_position(Tail(ents), entity)

interp_entity(buf, entity, alpha) ==
    LET n == Len(buf.history)
    IN IF n < 2 THEN None
       ELSE LET pa == find_position(buf.history[n - 1].entities, entity)
                pb == find_position(buf.history[n].entities, entity)
            IN IF IsSome(pa) /\ IsSome(pb)
               THEN Some(lerp(Unwrap(pa), Unwrap(pb), alpha))
               ELSE None

\* whole-number coordinates (in halves), small and large; blend factors
\* -1, 0, 0.5, 1 and 2 (in halves); entity lists of the snapshots pushed
Coords == {0, 4, 6, 40000000}
Alphas == {-2, 0, 1, 2, 4}
EntityStateAt(id, x) == [id |-> id, position |-> Vec3(x, 0, 2 * x)]
EntityLists ==
    {<<>>, <<EntityStateAt(8, 0)>>}
    \cup {<<EntityStateAt(7, x)>> : x \in Coords}
    \cup {<<EntityStateAt(8, 0), EntityStateAt(7, 4)>>}

InterpInit == [on |-> TRUE, buf |-> SnapshotBuffer_new(SNAP_CAPACITY),
               query |-> None, result |-> None]

InterpPush ==
    /\ Len(lib.buf.history) < MaxSnaps
    /\ \E ents \in EntityLists :
          lib' = [lib EXCEPT !.buf = push(@, SnapshotMsg(Len(lib.buf.history), ents)),
                             !.query = None, !.result = None]
    /\ UNCHANGED programs

InterpQuery ==
    /\ \E entity \in {7, 8}, alpha \in Alphas :
          lib' = [lib EXCEPT !.query = Some([entity |-> entity, alpha |-> alpha]),
                             !.result = interp_entity(lib.buf, entity, alpha)]
    /\ UNCHANGED programs

InitInterp == Library(InterpInit)
NextInterp ==
    \/ InterpPush
    \/ InterpQuery
SpecInterp == InitInterp /\ [][NextInterp]_vars

\* A + (B - A) * alpha, each operation in f32
Blend(a, b, alpha) ==
    Vec3(F32_add(a.x, F32_mul(F32_sub(b.x, a.x), alpha)),
         F32_add(a.y, F32_mul(F32_sub(b.y, a.y), alpha)),
         F32_add(a.z, F32_mul(F32_sub(b.z, a.z), alpha)))

\* C23 - interpolation result: None with fewer than two snapshots or when the
\* entity is missing from either of the two most recent ones; otherwise A for
\* alpha <= 0, B for alpha >= 1, and A + (B - A) * alpha in between.
C23_InterpResult ==
    (lib.on /\ IsSome(lib.query)) =>
        LET q == Unwrap(lib.query)
            h == lib.buf.history
            n == Len(h)
            present(i) == \E k \in 1..Len(h[i].entities) : h[i].entities[k].id = q.entity
        IN IF n < 2 \/ ~present(n - 1) \/ ~present(n)
           THEN lib.result = None
           ELSE LET A == Unwrap(find_position(h[n - 1].entities, q.entity))
                    B == Unwrap(find_position(h[n].entities, q.entity))
                IN lib.result = Some(IF q.alpha <= 0 THEN A
                                     ELSE IF q.alpha >= 2 THEN B
                                     ELSE Blend(A, B, q.alpha))

\* C24 - client command ticks: the PlayerCommands a client has sent carry ticks
\* that each exceed the previous one by exactly one, and the counter stands one
\* past the last command sent, so a tick() whose send failed did not advance it.
C24_CommandTicksIncrease ==
    gc.on =>
        /\ \A i \in 1..(Len(gc.emitted) - 1) : gc.emitted[i + 1] = gc.emitted[i] + 1
        /\ gc.tick = IF gc.emitted = <<>> THEN 0 ELSE gc.emitted[Len(gc.emitted)] + 1

\* two commands went out and, between or around them, a tick() failed to send
C24_Witness ==
    /\ gc.on
    /\ gc.send_failed
    /\ Len(gc.emitted) >= 2

(* ReliableConn::send / recv *)
\* serde_json payloads of two messages, as bytes; the transport does not look
\* inside them
Payloads == {<<7>>, <<8, 9>>}
\* BytesMut::put_u32: the length in four bytes, most significant first
put_u32(n) == << (n \div 16777216) % 256, (n \div 65536) % 256, (n \div 256) % 256, n % 256 >>
u32_from_be_bytes(b) == b[1] * 16777216 + b[2] * 65536 + b[3] * 256 + b[4]
ReliableConn_send(payload) == put_u32(Len(payload)) \o payload

\* a recv() in progress: the read_exact it is in, and what that has read so far
RecvFresh == [phase |-> "len", need |-> 4, buf |-> <<>>]

\* one underlying read of n bytes inside read_exact; the frame is returned when
\* its last byte is in
ReliableConn_read(rx, bytes) ==
    LET buf == rx.buf \o bytes
    IN IF Len(buf) < rx.need THEN [rx |-> [rx EXCEPT !.buf = buf], ret |-> None]
       ELSE IF rx.phase = "len"
       THEN [rx |-> [phase |-> "payload", need |-> u32_from_be_bytes(buf), buf |-> <<>>],
             ret |-> None]
       ELSE [rx |-> RecvFresh, ret |-> Some(buf)]

\* sent: payloads written by send; wire: bytes written and not yet read;
\* returned: what the recv calls have returned
FramingInit == [on |-> TRUE, sent |-> <<>>, wire |-> <<>>, rx |-> RecvFresh,
                returned |-> <<>>, timeouts |-> 0]

FrSend ==
    /\ Len(lib.sent) < MaxFrames
    /\ \E p \in Payloads :
          lib' = [lib EXCEPT !.sent = Append(@, p), !.wire = @ \o ReliableConn_send(p)]
    /\ UNCHANGED programs

\* the pending recv gets n bytes from the stream, n as the segments happen to fall
FrRead ==
    /\ \E n \in 1..Len(lib.wire) :
          /\ n <= lib.rx.need - Len(lib.rx.buf)
          /\ LET r == ReliableConn_read(lib.rx, SubSeq(lib.wire, 1, n))
             IN lib' = [lib EXCEPT !.wire = SubSeq(@, n + 1, Len(@)),
                                   !.rx = r.rx,
                                   !.returned = @ \o r.ret]
    /\ UNCHANGED programs

\* poll_reliable: the 10 ms timeout expires while recv is inside a frame; the
\* recv future is dropped with what it has read, and the next poll calls recv anew
FrTimeout ==
    /\ lib.rx # RecvFresh
    /\ lib.timeouts < MaxTimeouts
    /\ lib' = [lib EXCEPT !.rx = RecvFresh, !.timeouts = @ + 1]
    /\ UNCHANGED programs

InitFraming == Library(FramingInit)
NextFraming ==
    \/ FrSend
    \/ FrRead
    \/ FrTimeout
SpecFraming == InitFraming /\ [][NextFraming]_vars

\* C25 - reliable framing and order: the recv calls return the messages sent, in
\* send order, one per call, and once every byte written has been read every
\* message has been returned, however the stream is cut into reads.
C25_FramingOrder ==
    lib.on =>
        /\ Len(lib.returned) <= Len(lib.sent)
        /\ \A i \in 1..Len(lib.returned) : lib.returned[i] = lib.sent[i]
        /\ lib.wire = <<>> => lib.returned = lib.sent

\* the client's loop has just run tick and recv_snapshot
GameStep == gc.on /\ gc.at = "game" /\ gc'.at = "sleep"

\* C26 - malformed datagrams are dropped silently: on the server a datagram
\* that does not decode leaves the server as it was and the drain goes on; on the
\* client it leaves the snapshot buffer and the state as they were and
\* recv_snapshot returns Ok.
C26_MalformedDropped ==
    [][/\ \A a \in Addrs : recv_one(Self, Datagram(a, Malformed)) = Self
       /\ (GameStep /\ gc'.dgram = "Malformed")
          => /\ gc'.snaps = gc.snaps
             /\ gc'.state = gc.state
             /\ gc'.recv_ok]_vars

(* stdin reader thread and console channel *)
CONSOLE_CHANNEL_CAPACITY == 32

\* typed: non-empty lines read from stdin so far, numbered in the order entered;
\* reader: the thread is in read_line ("read") or in blocking_send with a line
\* in hand ("send"); chan: the channel; delivered: lines try_recv has handed to
\* the main task
StdinInit == [on |-> TRUE, typed |-> 0, reader |-> "read", hand |-> None,
              chan |-> <<>>, delivered |-> <<>>]

\* read_line returns a line that is not empty after trim
StdinReadLine ==
    /\ lib.reader = "read"
    /\ lib.typed < MaxTyped
    /\ lib' = [lib EXCEPT !.typed = @ + 1, !.reader = "send", !.hand = Some(lib.typed + 1)]
    /\ UNCHANGED programs

\* console_tx.blocking_send(line) returns once the channel has room for the line
StdinBlockingSend ==
    /\ lib.reader = "send"
    /\ Len(lib.chan) < CONSOLE_CHANNEL_CAPACITY
    /\ lib' = [lib EXCEPT !.chan = Append(@, Unwrap(lib.hand)),
                          !.reader = "read", !.hand = None]
    /\ UNCHANGED programs

\* the main task: `while let Ok(line) = rx.try_recv()`
StdinTryRecv ==
    /\ lib.chan # <<>>
    /\ lib' = [lib EXCEPT !.chan = Tail(@), !.delivered = Append(@, Head(lib.chan))]
    /\ UNCHANGED programs

\* what the reader thread can do on its own
ReaderStep == StdinReadLine \/ StdinBlockingSend

InitStdin == Library(StdinInit)
NextStdin ==
    \/ StdinReadLine
    \/ StdinBlockingSend
    \/ StdinTryRecv
SpecStdin == InitStdin /\ [][NextStdin]_vars

\* C27 - stdin backpressure: the reader thread is never held up by a full
\* channel (it can always go on while lines remain to be typed), and the lines
\* delivered to the main task are in the order they were entered.
C27_StdinBackpressure ==
    lib.on =>
        /\ lib.typed < MaxTyped => ENABLED ReaderStep
        /\ \A i, j \in 1..Len(lib.delivered) :
              i < j => lib.delivered[i] < lib.delivered[j]

(* encode_to_bytes / decode_from_bytes *)
\* the f32 value +infinity, beyond every finite value written in this module
F32_INFINITY == 1000000000
is_finite(x) == x # F32_INFINITY /\ x # -F32_INFINITY

\* JSON values as serde_json writes and reads them
JNull == [j |-> "null"]
JNum(n) == [j |-> "num", v |-> n]
JStr(s) == [j |-> "str", v |-> s]
JArr(a) == [j |-> "arr", v |-> a]
JObj(o) == [j |-> "obj", v |-> o]
\* an enum value: the variant name as the only key of an object
JVariant(tag, content) == [j |-> "variant", tag |-> tag, v |-> content]

\* Serializer::serialize_f32: a value that is not finite is written as null
ser_f32(x) == IF is_finite(x) THEN JNum(x) ELSE JNull

ser_Vec3(p) == JObj([x |-> ser_f32(p.x), y |-> ser_f32(p.y), z |-> ser_f32(p.z)])
ser_EntityState(e) == JObj([id |-> JNum(e.id), position |-> ser_Vec3(e.position)])
ser_pair(p) == JArr(<<JStr(p[1]), JStr(p[2])>>)
ser_entities(s) == JArr([i \in 1..Len(s) |-> ser_EntityState(s[i])])
ser_properties(s) == JArr([i \in 1..Len(s) |-> ser_pair(s[i])])

\* serde_json::to_vec(msg)
encode_to_bytes(m) ==
    JVariant(m.type,
        CASE m.type = "Hello" -> JObj([protocol |-> JNum(m.protocol)])
          [] m.type = "UdpHello" -> JObj([client_udp_port |-> JNum(m.client_udp_port)])
          [] m.type \in {"Welcome", "ClientReady"} -> JObj([client_id |-> JNum(m.client_id)])
          [] m.type = "MapInfo" ->
                JObj([name |-> JStr(m.name), crc |-> JNum(m.crc), size |-> JNum(m.size)])
          [] m.type = "EntitySpawn" ->
                JObj([id |-> JNum(m.id), classname |-> JStr(m.classname),
                      position |-> ser_Vec3(m.position),
                      properties |-> ser_properties(m.properties)])
          [] m.type = "EntityUpdate" -> ser_EntityState(m)
          [] m.type = "EntityDelete" -> JObj([id |-> JNum(m.id)])
          [] m.type = "PlayerCommand" ->
                JObj([client_id |-> JNum(m.client_id), tick |-> JNum(m.tick),
                      wish |-> ser_Vec3(m.wish)])
          [] m.type = "Snapshot" ->
                JObj([tick |-> JNum(m.tick),
                      entities |-> ser_entities(m.entities)])
          [] m.type = "ServerPrint" -> JObj([message |-> JStr(m.message)])
          [] m.type = "ClientCommand" -> JObj([command |-> JStr(m.command)])
          [] m.type = "Disconnect" -> JObj([reason |-> JStr(m.reason)]))

\* Deserialize: each field accepts the JSON type of its Rust type, nothing else
de_num(j) == IF j.j = "num" THEN Some(j.v) ELSE None
de_str(j) == IF j.j = "str" THEN Some(j.v) ELSE None
de_Vec3(j) ==
    IF j.j = "obj" /\ \A k \in {"x", "y", "z"} : IsSome(de_num(j.v[k]))
    THEN Some(Vec3(j.v.x.v, j.v.y.v, j.v.z.v))
    ELSE None
de_EntityState(j) ==
    IF j.j = "obj" /\ IsSome(de_num(j.v.id)) /\ IsSome(de_Vec3(j.v.position))
    THEN Some([id |-> j.v.id.v, position |-> Unwrap(de_Vec3(j.v.position))])
    ELSE None
de_pair(j) ==
    IF j.j = "arr" /\ Len(j.v) = 2 /\ IsSome(de_str(j.v[1])) /\ IsSome(de_str(j.v[2]))
    THEN Some(<<j.v[1].v, j.v[2].v>>)
    ELSE None
de_entities(j) ==
    IF j.j = "arr" /\ \A i \in 1..Len(j.v) : IsSome(de_EntityState(j.v[i]))
    THEN Some([i \in 1..Len(j.v) |-> Unwrap(de_EntityState(j.v[i]))])
    ELSE None
de_properties(j) ==
    IF j.j = "arr" /\ \A i \in 1..Len(j.v) : IsSome(de_pair(j.v[i]))
    THEN Some([i \in 1..Len(j.v) |-> Unwrap(de_pair(j.v[i]))])
    ELSE None
Fields(j, nums, strs) ==
    /\ j.j = "obj"
    /\ \A k \in nums : IsSome(de_num(j.v[k]))
    /\ \A k \in strs : IsSome(de_str(j.v[k]))

\* serde_json::from_slice::<NetMsg>(bytes): the message, or an error (None)
decode_from_bytes(b) ==
    LET c == b.v
        t == b.tag
    IN CASE t = "Hello" /\ Fields(c, {"protocol"}, {}) -> Some(Hello(c.v.protocol.v))
         [] t = "UdpHello" /\ Fields(c, {"client_udp_port"}, {}) ->
                Some(UdpHello(c.v.client_udp_port.v))
         [] t = "Welcome" /\ Fields(c, {"client_id"}, {}) -> Some(Welcome(c.v.client_id.v))
         [] t = "ClientReady" /\ Fields(c, {"client_id"}, {}) ->
                Some(ClientReady(c.v.client_id.v))
         [] t = "MapInfo" /\ Fields(c, {"crc", "size"}, {"name"}) ->
                Some([type |-> "MapInfo", name |-> c.v.name.v, crc |-> c.v.crc.v,
                      size |-> c.v.size.v])
         [] t = "EntitySpawn" /\ Fields(c, {"id"}, {"classname"})
               /\ IsSome(de_Vec3(c.v.position)) /\ IsSome(de_properties(c.v.properties)) ->
                Some([type |-> "EntitySpawn", id |-> c.v.id.v, classname |-> c.v.classname.v,
                      position |-> Unwrap(de_Vec3(c.v.position)),
                      properties |-> Unwrap(de_properties(c.v.properties))])
         [] t = "EntityUpdate" /\ IsSome(de_EntityState(c)) ->
                Some([type |-> "EntityUpdate", id |-> c.v.id.v,
                      position |-> Unwrap(de_Vec3(c.v.position))])
         [] t = "EntityDelete" /\ Fields(c, {"id"}, {}) ->
                Some([type |-> "EntityDelete", id |-> c.v.id.v])
         [] t = "PlayerCommand" /\ Fields(c, {"client_id", "tick"}, {})
               /\ IsSome(de_Vec3(c.v.wish)) ->
                Some(PlayerCommand(c.v.client_id.v, c.v.tick.v, Unwrap(de_Vec3(c.v.wish))))
         [] t = "Snapshot" /\ Fields(c, {"tick"}, {})
               /\ IsSome(de_entities(c.v.entities)) ->
                Some(SnapshotMsg(c.v.tick.v, Unwrap(de_entities(c.v.entities))))
         [] t = "ServerPrint" /\ Fields(c, {}, {"message"}) ->
                Some([type |-> "ServerPrint", message |-> c.v.message.v])
         [] t = "ClientCommand" /\ Fields(c, {}, {"command"}) ->
                Some([type |-> "ClientCommand", command |-> c.v.command.v])
         [] t = "Disconnect" /\ Fields(c, {}, {"reason"}) ->
                Some([type |-> "Disconnect", reason |-> c.v.reason.v])
         [] OTHER -> None

\* every variant of NetMsg, over a few values of each field; f32 fields in tenths
F32Values == {0, 15, F32_INFINITY}
Vec3Values == {Vec3(x, 0, z) : x, z \in F32Values}
Strings == {"", "de_one"}
EntityStates == {[id |-> 7, position |-> p] : p \in Vec3Values}
NetMsgs ==
    {Hello(p) : p \in {PROTOCOL_VERSION, PROTOCOL_VERSION + 1}}
    \cup {UdpHello(p) : p \in {0, 50000, 65535}}
    \cup {Welcome(i) : i \in {0, 1}}
    \cup {ClientReady(i) : i \in {0, 1}}
    \cup {[type |-> "MapInfo", name |-> n, crc |-> c, size |-> 4096] :
             n \in Strings, c \in {0, 65535}}
    \cup {[type |-> "EntitySpawn", id |-> 0, classname |-> "light", position |-> p,
           properties |-> pr] :
             p \in Vec3Values, pr \in {<<>>, << <<"origin", "0 0 0">> >>}}
    \cup {[type |-> "EntityUpdate", id |-> e.id, position |-> e.position] :
             e \in EntityStates}
    \cup {[type |-> "EntityDelete", id |-> 7]}
    \cup {PlayerCommand(1, t, w) : t \in {0, 1}, w \in Vec3Values}
    \cup {SnapshotMsg(1, <<>>)}
    \cup {SnapshotMsg(1, <<e>>) : e \in EntityStates}
    \cup {SnapshotMsg(1, <<e, [id |-> 8, position |-> ZERO]>>) : e \in EntityStates}
    \cup {[type |-> "ServerPrint", message |-> s] : s \in Strings}
    \cup {[type |-> "ClientCommand", command |-> s] : s \in Strings}
    \cup {[type |-> "Disconnect", reason |-> s] : s \in Strings}

CodecInit == [on |-> TRUE, msg |-> None, bytes |-> None, back |-> None, at |-> "fresh"]

\* let bytes = encode_to_bytes(&msg)
CodecEncode ==
    /\ lib.on /\ lib.at = "fresh"
    /\ \E m \in NetMsgs :
          lib' = [lib EXCEPT !.msg = Some(m), !.bytes = Some(encode_to_bytes(m)),
                             !.at = "encoded"]
    /\ UNCHANGED programs

\* let back = decode_from_bytes(&bytes)
CodecDecode ==
    /\ lib.on /\ lib.at = "encoded"
    /\ lib' = [lib EXCEPT !.back = decode_from_bytes(Unwrap(lib.bytes)), !.at = "decoded"]
    /\ UNCHANGED programs

InitCodec == Library(CodecInit)
NextCodec == CodecEncode \/ CodecDecode
SpecCodec == InitCodec /\ [][NextCodec]_vars

\* C28: decoding the encoding of a message succeeds and gives back that message,
\* for every variant of NetMsg
C28_CodecRoundTrip ==
    (lib.on /\ lib.at = "decoded") => lib.back = lib.msg

(* World::spawn / World::insert on one World *)
Positions == {ZERO, Vec3(1, 2, 3)}
EntityIds == 0..MaxSpawns

EcsInit == [on |-> TRUE, world |-> World_default, returned |-> <<>>, inserts |-> 0]

\* let e = world.spawn()
EcsSpawn ==
    /\ lib.on /\ Len(lib.returned) < MaxSpawns
    /\ lib' = [lib EXCEPT !.world = World_spawn(lib.world),
                          !.returned = Append(@, lib.world.next_id)]
    /\ UNCHANGED programs

\* world.insert(e, Position { .. }) for any EntityId value
EcsInsert ==
    /\ lib.on /\ lib.inserts < MaxInserts
    /\ \E e \in EntityIds, p \in Positions :
          lib' = [lib EXCEPT !.world = World_insert(lib.world, e, p), !.inserts = @ + 1]
    /\ UNCHANGED programs

InitEcs == Library(EcsInit)
NextEcs == EcsSpawn \/ EcsInsert
SpecEcs == InitEcs /\ [][NextEcs]_vars

\* C29: every spawn returns an id that this World has not returned before, and
\* leaves every stored component, so every lookup result, as it was
C29_IdsNeverReused ==
    [][(lib.on /\ Len(lib'.returned) > Len(lib.returned)) =>
          /\ \A i \in 1..Len(lib.returned) :
                lib.returned[i] # lib'.returned[Len(lib'.returned)]
          /\ \A e \in EntityIds : World_get(lib'.world, e) = World_get(lib.world, e)]_vars

\* a spawn after an earlier spawn and an insert on the earlier id
C29_Witness ==
    /\ lib.on /\ Len(lib.returned) >= 2
    /\ lib.returned[1] \in DOMAIN lib.world.position

(* BspMap::load / BspMap::read_header *)
BSP_MAGIC == 1347633750
BSP_VERSION_MIN == 19
BSP_VERSION_MAX == 21
HEADER_LUMPS == 64
\* a LumpEntry in the file: offset, length, version (u32 each) and fourcc ([u8; 4])
LUMP_ENTRY_BYTES == 16
\* the lumps load reads, in order: entities, planes, vertices, edges, surf_edges,
\* faces, brushes, brush_sides, models
LOADED_LUMPS == 9
HeaderBytes == 4 + 4 + HEADER_LUMPS * LUMP_ENTRY_BYTES + 4

\* r.read_exact of n bytes at the reader's position: fails at the end of the file
read_exact(f, pos, n) == pos + n <= f.size

\* the version test of read_header without its upper limit
version_supported_min_only(v) == ~(v < BSP_VERSION_MIN)

\* if version < BSP_VERSION_MIN || version > BSP_VERSION_MAX { bail!(..) }
version_supported(v) == ~(v < BSP_VERSION_MIN \/ v > BSP_VERSION_MAX)

\* files: header words, total size in bytes, and the length every lump entry
\* carries (the payload, when there is one, follows the header)
BspFiles ==
    [magic : {BSP_MAGIC, 1347633737, 0},
     version : {0, BSP_VERSION_MIN - 1, BSP_VERSION_MIN, BSP_VERSION_MAX, BSP_VERSION_MAX + 1},
     lump_length : {0, 20},
     size : {0, 4, 8, 8 + 32 * LUMP_ENTRY_BYTES, HeaderBytes, HeaderBytes + 20}]

BspInit(f) ==
    [on |-> TRUE, file |-> f, at |-> "magic", pos |-> 0, lump_entries |-> 0,
     lumps_done |-> 0, payload_reads |-> 0, map |-> None]

BspFail == [lib EXCEPT !.at = "err"]

\* let magic = read_u32(r)?; if magic != BSP_MAGIC { bail!(..) }
BspReadMagic ==
    /\ lib.on /\ lib.at = "magic"
    /\ lib' = IF ~read_exact(lib.file, lib.pos, 4) THEN BspFail
              ELSE IF lib.file.magic # BSP_MAGIC THEN [BspFail EXCEPT !.pos = @ + 4]
              ELSE [lib EXCEPT !.pos = @ + 4, !.at = "version"]
    /\ UNCHANGED programs

\* let version = read_u32(r)?; the range test
BspReadVersion ==
    /\ lib.on /\ lib.at = "version"
    /\ lib' = IF ~read_exact(lib.file, lib.pos, 4) THEN BspFail
              ELSE IF ~version_supported(lib.file.version)
                   THEN [BspFail EXCEPT !.pos = @ + 4]
              ELSE [lib EXCEPT !.pos = @ + 4, !.at = "lumps"]
    /\ UNCHANGED programs

\* one turn of `for lump in &mut lumps`
BspReadLumpEntry ==
    /\ lib.on /\ lib.at = "lumps"
    /\ lib' = IF ~read_exact(lib.file, lib.pos, LUMP_ENTRY_BYTES) THEN BspFail
              ELSE [lib EXCEPT !.pos = @ + LUMP_ENTRY_BYTES,
                               !.lump_entries = @ + 1,
                               !.at = IF lib.lump_entries + 1 = HEADER_LUMPS
                                      THEN "revision" ELSE "lumps"]
    /\ UNCHANGED programs

\* let map_revision = read_u32(r)?; Ok(BspHeader { .. })
BspReadRevision ==
    /\ lib.on /\ lib.at = "revision"
    /\ lib' = IF ~read_exact(lib.file, lib.pos, 4) THEN BspFail
              ELSE [lib EXCEPT !.pos = @ + 4, !.at = "payload"]
    /\ UNCHANGED programs

\* one read_* call of load: read_lump, then Ok(map) after the last
BspReadLump ==
    /\ lib.on /\ lib.at = "payload"
    /\ LET done == lib.lumps_done + 1
           next == [lib EXCEPT !.lumps_done = done,
                               !.at = IF done = LOADED_LUMPS THEN "ok" ELSE "payload",
                               !.map = IF done = LOADED_LUMPS
                                       THEN Some([version |-> lib.file.version])
                                       ELSE None]
       IN lib' = IF lib.file.lump_length = 0 THEN next
                 ELSE IF ~read_exact(lib.file, HeaderBytes, lib.file.lump_length)
                      THEN BspFail
                 ELSE [next EXCEPT !.pos = HeaderBytes + lib.file.lump_length,
                                   !.payload_reads = @ + 1]
    /\ UNCHANGED programs

InitBsp == \E f \in BspFiles : Library(BspInit(f))
NextBsp ==
    \/ BspReadMagic
    \/ BspReadVersion
    \/ BspReadLumpEntry
    \/ BspReadRevision
    \/ BspReadLump
SpecBsp == InitBsp /\ [][NextBsp]_vars

BspRejected(f) ==
    \/ f.magic # BSP_MAGIC
    \/ f.version < BSP_VERSION_MIN
    \/ f.version > BSP_VERSION_MAX

\* C30: a file with a wrong magic, or with a version outside
\* [BSP_VERSION_MIN, BSP_VERSION_MAX], is refused with an error before any lump
\* descriptor or lump payload is read, and no map comes out of the load
C30_MapFileRejection ==
    (lib.on /\ BspRejected(lib.file)) =>
        /\ lib.lump_entries = 0
        /\ lib.payload_reads = 0
        /\ lib.lumps_done = 0
        /\ lib.map = None
        /\ lib.at \in {"magic", "version", "err"}
        /\ lib.pos <= 8

\* a whole file with the right magic and version 22, refused after the version
\* was read
C30_Witness ==
    /\ lib.on /\ lib.at = "err" /\ lib.pos = 8
    /\ lib.file.magic = BSP_MAGIC
    /\ lib.file.version = BSP_VERSION_MAX + 1
    /\ lib.file.size = HeaderBytes + 20

(* BspMap::spawn_points / BspEntity::origin *)
\* strings as sequences of characters, so that a prefix is a prefix
Str_info_player == <<"i", "n", "f", "o", "_", "p", "l", "a", "y", "e", "r">>
Str_info_target == <<"i", "n", "f", "o", "_", "t", "a", "r", "g", "e", "t">>
Str_info_player_start == Str_info_player \o <<"_", "s", "t", "a", "r", "t">>
Str_info_playe == SubSeq(Str_info_player, 1, 10)
Str_info_target2 == Str_info_target \o <<"2">>
Str_my_info_player == <<"m", "y", "_">> \o Str_info_player
Str_light == <<"l", "i", "g", "h", "t">>

\* str::starts_with
starts_with(s, prefix) ==
    Len(s) >= Len(prefix) /\ SubSeq(s, 1, Len(prefix)) = prefix

\* the words of an "origin" value: a word parses as f32 or it does not
Num(n) == [parses |-> TRUE, v |-> n]
Junk == [parses |-> FALSE]

\* BspEntity::origin over properties.get("origin") split at whitespace: the words
\* that parse are kept, and exactly three of them make a Vec3
BspEntity_origin(e) ==
    IF ~IsSome(e.origin) THEN None
    ELSE LET parts == SelectSeq(Unwrap(e.origin), LAMBDA w : w.parses)
         IN IF Len(parts) = 3
            THEN Some(Vec3(parts[1].v, parts[2].v, parts[3].v))
            ELSE None

\* the classname filter as it would be with a prefix test for both names
is_spawn_class_prefix_only(cn) ==
    starts_with(cn, Str_info_player) \/ starts_with(cn, Str_info_target)

\* |e| e.classname.starts_with("info_player") || e.classname == "info_target"
is_spawn_class(cn) == starts_with(cn, Str_info_player) \/ cn = Str_info_target

\* .iter().filter(..).filter_map(|e| e.origin()).collect()
RECURSIVE BspMap_spawn_points(_)
BspMap_spawn_points(ents) ==
    IF ents = <<>> THEN <<>>
    ELSE LET e == Head(ents)
         IN (IF is_spawn_class(e.classname) /\ IsSome(BspEntity_origin(e))
             THEN <<Unwrap(BspEntity_origin(e))>> ELSE <<>>)
            \o BspMap_spawn_points(Tail(ents))

Classnames ==
    {Str_info_player, Str_info_player_start, Str_info_playe, Str_info_target,
     Str_info_target2, Str_my_info_player, Str_light, <<>>}
OriginValues ==
    {None, Some(<<Num(10), Num(0), Num(0)>>), Some(<<Num(0), Num(20), Num(0)>>),
     Some(<<Num(1), Num(2)>>), Some(<<Num(1), Junk, Num(2), Num(3)>>)}
ParsedEntities == [classname : Classnames, origin : OriginValues]
ParsedMaps ==
    UNION {[1..n -> ParsedEntities] : n \in 0..MaxMapEntities}

SpawnInit(ents) == [on |-> TRUE, entities |-> ents, points |-> None]

\* let points = map.spawn_points()
SpSpawnPoints ==
    /\ lib.on /\ ~IsSome(lib.points)
    /\ lib' = [lib EXCEPT !.points = Some(BspMap_spawn_points(lib.entities))]
    /\ UNCHANGED programs

InitSpawn == \E ents \in ParsedMaps : Library(SpawnInit(ents))
NextSpawn == SpSpawnPoints
SpecSpawn == InitSpawn /\ [][NextSpawn]_vars

\* the classnames of Classnames that begin with info_player or are info_target
SpawnClassnames == {Str_info_player, Str_info_player_start, Str_info_target}
\* positions in the file of the entities of a spawn class that have an origin
SpawnIndices(ents) ==
    {i \in 1..Len(ents) : ents[i].classname \in SpawnClassnames
                            /\ IsSome(BspEntity_origin(ents[i]))}
\* the k-th smallest of a set of positions
KthIndex(S, k) == CHOOSE i \in S : Cardinality({j \in S : j <= i}) = k

\* C31: spawn_points returns the origins of the entities whose classname begins
\* with info_player or is info_target, in file order, and nothing else
C31_SpawnPoints ==
    (lib.on /\ IsSome(lib.points)) =>
        LET pts == Unwrap(lib.points)
            idx == SpawnIndices(lib.entities)
        IN /\ Len(pts) = Cardinality(idx)
           /\ \A k \in 1..Len(pts) :
                 Some(pts[k]) = BspEntity_origin(lib.entities[KthIndex(idx, k)])

\* two spawn entities with different origins around which another entity's
\* origin must not appear
C31_Witness ==
    /\ lib.on /\ IsSome(lib.points)
    /\ Len(lib.entities) = 2
    /\ lib.entities[1].classname = Str_info_target
    /\ lib.entities[2].classname = Str_info_player_start
    /\ Unwrap(lib.points) = <<Vec3(0, 20, 0), Vec3(10, 0, 0)>>

(* parse_entity_lump / parse_kv_line *)
\* text as a sequence of characters; a run of letters or digits is one symbol
QUOTE == "\""
NL == "\n"
SP == " "

\* str::lines: the pieces between newlines, no empty piece after a final newline
RECURSIVE str_lines(_)
str_lines(text) ==
    LET nls == {i \in 1..Len(text) : text[i] = NL}
    IN IF nls = {} THEN (IF text = <<>> THEN <<>> ELSE <<text>>)
       ELSE LET p == KthIndex(nls, 1)
            IN <<SubSeq(text, 1, p - 1)>> \o str_lines(SubSeq(text, p + 1, Len(text)))

\* str::trim
RECURSIVE str_trim(_)
str_trim(line) ==
    IF line # <<>> /\ Head(line) = SP THEN str_trim(Tail(line))
    ELSE IF line # <<>> /\ line[Len(line)] = SP THEN str_trim(SubSeq(line, 1, Len(line) - 1))
    ELSE line

\* parse_kv_line as it would be if it took only a line made of two quoted tokens
parse_kv_line_strict(line) ==
    LET q == {i \in 1..Len(line) : line[i] = QUOTE}
    IN IF Cardinality(q) # 4 \/ line[1] # QUOTE \/ line[Len(line)] # QUOTE
            \/ \E i \in (KthIndex(q, 2) + 1)..(KthIndex(q, 3) - 1) : line[i] # SP
       THEN None
       ELSE Some(<<SubSeq(line, KthIndex(q, 1) + 1, KthIndex(q, 2) - 1),
                   SubSeq(line, KthIndex(q, 3) + 1, KthIndex(q, 4) - 1)>>)

\* parse_kv_line: the text between the first and second quote and between the
\* third and fourth quote of the line; None when the line has fewer than four
parse_kv_line(line) ==
    LET q == {i \in 1..Len(line) : line[i] = QUOTE}
    IN IF Cardinality(q) < 4 THEN None
       ELSE Some(<<SubSeq(line, KthIndex(q, 1) + 1, KthIndex(q, 2) - 1),
                   SubSeq(line, KthIndex(q, 3) + 1, KthIndex(q, 4) - 1)>>)

BspEntity_default == [classname |-> <<>>, properties |-> EmptyMap]

\* ent.properties.insert(key, value), with classname promoted
BspEntity_put(ent, key, value) ==
    [classname |-> IF key = <<"classname">> THEN value ELSE ent.classname,
     properties |-> [k \in (DOMAIN ent.properties) \cup {key} |->
                        IF k = key THEN value ELSE ent.properties[k]]]

\* one turn of `for line in text.lines()` on the parser state
parse_line(st, raw) ==
    LET line == str_trim(raw)
        kv == parse_kv_line(line)
    IN IF line = <<"{">>
       THEN [st EXCEPT !.in_entity = TRUE, !.current = Some(BspEntity_default)]
       ELSE IF line = <<"}">>
       THEN [entities |-> st.entities \o st.current, current |-> None, in_entity |-> FALSE]
       ELSE IF st.in_entity /\ IsSome(kv) /\ IsSome(st.current)
       THEN [st EXCEPT !.current =
                Some(BspEntity_put(Unwrap(st.current), Unwrap(kv)[1], Unwrap(kv)[2]))]
       ELSE st

RECURSIVE parse_lines(_, _)
parse_lines(st, lines) ==
    IF lines = <<>> THEN st
    ELSE parse_lines(parse_line(st, Head(lines)), Tail(lines))

parse_entity_lump(text) ==
    parse_lines([entities |-> <<>>, current |-> None, in_entity |-> FALSE],
                str_lines(text)).entities

\* the lines a text is made of
KvLine(key, value) == <<QUOTE>> \o key \o <<QUOTE, SP, QUOTE>> \o value \o <<QUOTE>>
TextLines ==
    { <<"{">>, <<SP, "{", SP>>, <<"}">>,
      KvLine(<<"classname">>, <<"light">>),
      KvLine(<<"origin">>, <<"0", SP, "0", SP, "64">>),
      KvLine(<<"classname">>, <<"door">>) \o <<SP, QUOTE, "x", QUOTE>>,
      <<QUOTE, "classname", QUOTE, SP, QUOTE, "door">>,
      <<"x">> }
RECURSIVE JoinLines(_)
JoinLines(lines) ==
    IF lines = <<>> THEN <<>>
    ELSE IF Len(lines) = 1 THEN Head(lines)
    ELSE Head(lines) \o <<NL>> \o JoinLines(Tail(lines))
Texts ==
    UNION {{JoinLines(ls) \o end : ls \in [1..n -> TextLines], end \in {<<>>, <<NL>>}} :
             n \in 1..MaxTextLines}

LumpInit(text) == [on |-> TRUE, text |-> text, entities |-> None]

\* let ents = parse_entity_lump(text)
PeParse ==
    /\ lib.on /\ ~IsSome(lib.entities)
    /\ lib' = [lib EXCEPT !.entities = Some(parse_entity_lump(lib.text))]
    /\ UNCHANGED programs

InitLump == \E text \in Texts : Library(LumpInit(text))
NextLump == PeParse
SpecLump == InitLump /\ [][NextLump]_vars

\* a line of the shape "key" "value": two quoted tokens and only spaces between
WellFormedKv(line) == IsSome(parse_kv_line_strict(str_trim(line)))
IsOpen(line) == str_trim(line) = <<"{">>
IsClose(line) == str_trim(line) = <<"}">>
\* the blocks of a text: pairs <<o, c>> of an opening line and its closing line,
\* with no brace line between them
Blocks(lines) ==
    {b \in (1..Len(lines)) \X (1..Len(lines)) :
        /\ b[1] < b[2] /\ IsOpen(lines[b[1]]) /\ IsClose(lines[b[2]])
        /\ \A i \in (b[1] + 1)..(b[2] - 1) : ~IsOpen(lines[i]) /\ ~IsClose(lines[i])}
\* the k-th block by position
KthBlock(lines, k) ==
    CHOOSE b \in Blocks(lines) : Cardinality({c \in Blocks(lines) : c[2] <= b[2]}) = k
\* the key/value pairs of the well-formed lines of a block
BlockPairs(lines, b) ==
    {Unwrap(parse_kv_line_strict(str_trim(lines[i]))) :
        i \in {j \in (b[1] + 1)..(b[2] - 1) : WellFormedKv(lines[j])}}

\* C32: one entity per block, in order; its properties are what the well-formed
\* key/value lines of the block say and nothing else, and its classname is the
\* value of the block's classname key
C32_EntityParser ==
    (lib.on /\ IsSome(lib.entities)) =>
        LET lines == str_lines(lib.text)
            ents == Unwrap(lib.entities)
        IN /\ Len(ents) = Cardinality(Blocks(lines))
           /\ \A k \in 1..Len(ents) :
                 LET pairs == BlockPairs(lines, KthBlock(lines, k))
                 IN /\ DOMAIN ents[k].properties = {p[1] : p \in pairs}
                    /\ \A key \in DOMAIN ents[k].properties :
                          <<key, ents[k].properties[key]>> \in pairs
                    /\ ents[k].classname =
                          (IF <<"classname">> \in DOMAIN ents[k].properties
                           THEN ents[k].properties[<<"classname">>] ELSE <<>>)

(* GameServer::process_console_commands / exec_console / Console::exec *)
\* a console line by its tokens
ConLine(cmd, args) == [cmd |-> cmd, args |-> args]
\* the cvars register_cvars creates
Cvars == {"sv_tickrate", "sv_maxclients", "sv_cheats"}

\* Console::exec: Err when the command's handler fails. Of the built-in handlers
\* only set fails: with fewer than two arguments, or for a cvar that does not exist
Console_exec(line) ==
    IF line.cmd = "set"
    THEN IF Len(line.args) < 2 THEN "Err"
         ELSE IF line.args[1] \in Cvars THEN "Ok" ELSE "Err"
    ELSE "Ok"

\* exec_console: map and status answer Ok whatever happens, quit and exit end the
\* process, every other line goes to Console::exec
exec_console_result(line) ==
    IF line.cmd \in {"map", "status"} THEN "Ok"
    ELSE IF line.cmd \in {"quit", "exit"} THEN "Exit"
    ELSE Console_exec(line)

StdinLines ==
    {ConLine("status", <<>>), ConLine("map", <<"de_one">>), ConLine("echo", <<"hi">>),
     ConLine("set", <<"sv_cheats", "1">>), ConLine("set", <<"sv_cheats">>),
     ConLine("set", <<"sv_gravity", "800">>), ConLine("quit", <<>>)}

ConsoleInit ==
    [on |-> TRUE, at |-> "idle", queue |-> <<>>, typed |-> 0, collected |-> <<>>,
     left |-> <<>>, executed |-> <<>>, datagrams |-> 0, steps |-> 0]

\* the stdin thread puts a line on the channel
CnQueueLine ==
    /\ lib.on /\ lib.at \notin {"failed", "exited"} /\ lib.typed < MaxQueued
    /\ \E line \in StdinLines :
          lib' = [lib EXCEPT !.queue = Append(@, line), !.typed = @ + 1]
    /\ UNCHANGED programs

\* step begins: `while let Ok(line) = rx.try_recv() { collected.push(line) }`
CnCollect ==
    /\ lib.on /\ lib.at = "idle" /\ lib.steps < MaxSteps
    /\ lib' = [lib EXCEPT !.at = "console", !.collected = lib.queue, !.left = lib.queue,
                          !.queue = <<>>, !.executed = <<>>, !.datagrams = 0]
    /\ UNCHANGED programs

\* one turn of `for line in lines { self.exec_console(&line)?; }`
process_line(L, line) ==
    LET r == exec_console_result(line)
    IN [L EXCEPT !.at = IF r = "Err" THEN "failed" ELSE IF r = "Exit" THEN "exited" ELSE @,
                 !.executed = Append(@, line),
                 !.left = Tail(@)]

CnExecLine ==
    /\ lib.on /\ lib.at = "console" /\ lib.left # <<>>
    /\ lib' = process_line(lib, Head(lib.left))
    /\ UNCHANGED programs

\* process_console_commands returns Ok; recv_commands takes a datagram
CnRecvDatagram ==
    /\ lib.on /\ lib.at \in {"console", "recv"} /\ lib.left = <<>>
    /\ lib.datagrams < MaxCmds
    /\ lib' = [lib EXCEPT !.at = "recv", !.datagrams = @ + 1]
    /\ UNCHANGED programs

\* recv_commands sees WouldBlock; the rest of step
CnStepEnd ==
    /\ lib.on /\ lib.at \in {"console", "recv"} /\ lib.left = <<>>
    /\ lib' = [lib EXCEPT !.at = "idle", !.steps = @ + 1]
    /\ UNCHANGED programs

InitConsole == Library(ConsoleInit)
NextConsole ==
    \/ CnQueueLine
    \/ CnCollect
    \/ CnExecLine
    \/ CnRecvDatagram
    \/ CnStepEnd
SpecConsole == InitConsole /\ [][NextConsole]_vars

\* C33: the lines queued when a step begins are executed in queue order, each
\* once, before any datagram of the step, whatever the lines before them returned:
\* once the console phase of the step is over, every collected line has been executed
C33_ConsoleDrain ==
    lib.on =>
        /\ lib.at = "console" =>
              lib.datagrams = 0 /\ lib.executed \o lib.left = lib.collected
        /\ lib.at \in {"recv", "failed", "exited", "idle"} =>
              lib.executed = lib.collected

(* snapshot contents *)
\* the entries a snapshot of world w must hold: one for each entity with a Position
PositionEntries(w) == {[id |-> e, position |-> w.position[e]] : e \in DOMAIN w.position}

\* C34: each Snapshot sent at the end of a step holds one entry for every entity
\* with a Position, with its position at that time, and no other entry; a step
\* that ends with the state not Running sends none
C34_SnapshotContents ==
    [][(pc # "idle" /\ pc' = "idle") =>
          /\ \A d \in sent' : /\ d.payload.type = "Snapshot"
                              /\ d.payload.entities = PositionEntries(world')
          /\ state # "Running" => sent' = {}]_vars

\* a snapshot is out while the world holds an entity with a Position next to a
\* map entity that has none
C34_Witness ==
    /\ sent # {}
    /\ DOMAIN world.position # {}
    /\ Cardinality(DOMAIN world.position) < world.next_id
    /\ \E d \in sent : d.payload.entities = PositionEntries(world)

(* GameServer::on_command under duplicated and reordered datagrams *)
\* a server that has loaded de_one and registered clients 1, 2 and 3, of which 1
\* and 2 have sent ClientReady; no client has id 9
InputServer ==
    LET base == [world |-> World_default, clients |-> EmptyMap, tick |-> 0,
                 state |-> "Idle", current_map |-> None, readied |-> {},
                 avatars |-> {}, cmds |-> EmptyMap]
        loaded == load_map(base, "de_one").self
        peer == SocketAddr_new(PeerIp, 50000)
        joined == [loaded EXCEPT !.clients = [c \in 1..3 |-> ClientState_new(peer)],
                                 !.cmds = [c \in 1..3 |-> <<>>]]
    IN client_ready(client_ready(joined, 1), 2)
InputIds == {1, 2, 3, 9}

InputInit == [on |-> TRUE, S |-> InputServer, delivered |-> 0, got |-> None]

\* what the clients send: commands of any tick, and ClientReady
InputMsgs ==
    {PlayerCommand(id, t, w) : id \in InputIds, t \in 1..MaxCmdTick, w \in Wishes}
    \cup {ClientReady(id) : id \in InputIds}

\* a datagram reaches recv_commands, whatever came before it
InDeliver ==
    /\ lib.on /\ lib.delivered < MaxDelivered
    /\ \E msg \in InputMsgs, from \in Addrs :
          lib' = [lib EXCEPT !.S = recv_one(lib.S, Datagram(from, msg)),
                             !.delivered = @ + 1,
                             !.got = Some(msg)]
    /\ UNCHANGED programs

InitInput == Library(InputInit)
NextInput == InDeliver
SpecInput == InitInput /\ [][NextInput]_vars

\* C35: a PlayerCommand whose tick is not greater than the client's last-seen
\* tick changes neither that tick nor any entity position
C35_StaleInputIgnored ==
    [][(lib.on /\ IsSome(lib'.got)) =>
          LET cmd == Unwrap(lib'.got)
          IN (cmd.type = "PlayerCommand"
              /\ cmd.client_id \in DOMAIN lib.S.clients
              /\ cmd.tick <= lib.S.clients[cmd.client_id].last_cmd_tick) =>
                 /\ lib'.S.clients[cmd.client_id].last_cmd_tick =
                       lib.S.clients[cmd.client_id].last_cmd_tick
                 /\ lib'.S.world.position = lib.S.world.position]_vars

(* GameClient::recv_snapshot behind a channel that loses, repeats and reorders *)
\* the server has sent the snapshots of ticks 0..sent; C is the client
ChannelInit ==
    [on |-> TRUE, sent |-> 0, delivered |-> 0,
     C |-> GameClient_connected(FIRST_CLIENT_ID, {"de_one"}, <<>>, FALSE)]

\* the server ends another step and sends its snapshot
ChServerSend ==
    /\ lib.on /\ lib.sent < MaxSnaps
    /\ lib' = [lib EXCEPT !.sent = @ + 1]
    /\ UNCHANGED programs

\* the client's recv_snapshot gets a datagram: any of those sent so far, whether
\* or not it was delivered before
ChDeliver ==
    /\ lib.on /\ lib.delivered < MaxDelivered
    /\ \E t \in 0..lib.sent :
          lib' = [lib EXCEPT !.C = recv_snapshot(@, Some(SnapshotMsg(t, {}))).c,
                             !.delivered = @ + 1]
    /\ UNCHANGED programs

InitChannel == Library(ChannelInit)
NextChannel == ChServerSend \/ ChDeliver
SpecChannel == InitChannel /\ [][NextChannel]_vars

\* C36: the snapshots in the client's buffer have strictly increasing ticks from
\* oldest to newest
C36_BufferTicksIncrease ==
    lib.on =>
        LET h == lib.C.snaps.history
        IN \A i \in 1..(Len(h) - 1) : h[i].tick < h[i + 1].tick

(* avatars and ready records *)
\* the entities load_map seeded from map m: every entity of the map but worldspawn
SeededCount(m) == IF IsSome(m) THEN Len(NonWorldspawn(Unwrap(m).entities)) ELSE 0
\* the entities of S that a ClientReady spawned
PlayerEntities(S) == SeededCount(S.current_map)..(S.world.next_id - 1)
ReadyClients(S) == {c \in DOMAIN S.clients : S.clients[c].ready}

\* C37: there are as many player entities as ready records, each ready record
\* refers to a player entity of its own, and every player entity is referred to
C37_OneAvatarPerReadyClient ==
    lib.on =>
        LET S == lib.S
        IN /\ Cardinality(PlayerEntities(S)) = Cardinality(ReadyClients(S))
           /\ \A c \in ReadyClients(S) :
                 /\ IsSome(S.clients[c].player_entity)
                 /\ Unwrap(S.clients[c].player_entity) \in PlayerEntities(S)
                 /\ \A d \in ReadyClients(S) \ {c} :
                       S.clients[d].player_entity # S.clients[c].player_entity
           /\ \A e \in PlayerEntities(S) :
                 \E c \in DOMAIN S.clients : S.clients[c].player_entity = Some(e)

\* C38: the player entity of every client record is an entity a ClientReady
\* spawned in the current world, never one seeded from the map
C38_AvatarReferenceIntegrity ==
    \A c \in DOMAIN clients :
        IsSome(clients[c].player_entity)
        => Unwrap(clients[c].player_entity) \in PlayerEntities(Self)

\* C39: a client record is ready exactly when it has a player entity; a record
\* starts with neither
C39_ReadyIffAvatar ==
    \A c \in DOMAIN clients : clients[c].ready <=> IsSome(clients[c].player_entity)

\* one record that has been made ready next to one that is as registered, after
\* a map load
C39_Witness ==
    /\ IsSome(current_map)
    /\ \E c, d \in DOMAIN clients :
          /\ clients[c].ready /\ IsSome(clients[c].player_entity)
          /\ ~clients[d].ready /\ ~IsSome(clients[d].player_entity)

\* C40: a PlayerCommand for an id that is not registered changes no record and no
\* position; one for a registered client without a player entity changes only
\* that record's udp_peer and last-seen tick and no position; the records of the
\* other clients stay as they are
C40_CommandFrame ==
    [][(lib.on /\ IsSome(lib'.got) /\ Unwrap(lib'.got).type = "PlayerCommand") =>
          LET cmd == Unwrap(lib'.got)
              id == cmd.client_id
              S == lib.S
              T == lib'.S
          IN /\ DOMAIN T.clients = DOMAIN S.clients
             /\ \A d \in DOMAIN S.clients \ {id} : T.clients[d] = S.clients[d]
             /\ id \notin DOMAIN S.clients => T.world = S.world
             /\ (id \in DOMAIN S.clients /\ ~IsSome(S.clients[id].player_entity)) =>
                   /\ T.world = S.world
                   /\ T.clients[id].udp_peer \in Addrs
                   /\ T.clients[id].last_cmd_tick = cmd.tick
                   /\ T.clients[id].ready = S.clients[id].ready
                   /\ T.clients[id].player_entity = S.clients[id].player_entity]_vars

\* a command for client 3, registered and without a player entity, has just
\* been handled
C40_Witness ==
    /\ lib.on /\ IsSome(lib.got)
    /\ Unwrap(lib.got) \in {PlayerCommand(3, t, w) : t \in 1..MaxCmdTick, w \in Wishes}
    /\ ~IsSome(lib.S.clients[3].player_entity)
    /\ lib.S.clients[3].last_cmd_tick = Unwrap(lib.got).tick
    /\ lib.S.clients[3].udp_peer \in Addrs

====
